---- MODULE Spec2Model ----
(***************************************************************************)
(* A model of bare-lsp: the Content-Length frame splitter                  *)
(* (message-stream-splitter.cc) and the JSON-RPC dispatcher                *)
(* (json-rpc-dispatcher.cc).                                               *)
(*                                                                         *)
(* Bytes are one-character strings; a byte string is a sequence of them.   *)
(* Offsets into byte strings are zero-based as in the C++ source; the      *)
(* sequence operators of TLA+ are one-based, hence the +1 in SubSeq calls. *)
(***************************************************************************)
EXTENDS Integers, Sequences, FiniteSets, TLC

(***************************************************************************)
(* Bounds of the model.                                                    *)
(***************************************************************************)
\* Capacity of the read buffer (read_buffer_size_); 4096 in the tests and
\* 1 MiB in main.cc.  Every frame of the catalogue fits into it, the streams
\* of two frames do not.
BufSize == 40
\* Largest number of frames in one input stream.
MaxFrames == 2

(***************************************************************************)
(* Byte string helpers.                                                    *)
(***************************************************************************)
CR == "\r"
LF == "\n"

kEndHeaderMarker == <<CR, LF, CR, LF>>
kContentLengthHeader ==
  <<"C", "o", "n", "t", "e", "n", "t", "-", "L", "e", "n", "g", "t", "h", ":", " ">>

npos == -1

SetMin(S) == CHOOSE x \in S : \A y \in S : x <= y
Max(a, b) == IF a >= b THEN a ELSE b
Min(a, b) == IF a <= b THEN a ELSE b

\* absl::string_view(data + off, len)
View(data, off, len) == SubSeq(data, off + 1, off + len)

\* absl::string_view::find(): offset of the first occurrence or npos.
Find(data, pat) ==
  LET hits == {i \in 0..(Len(data) - Len(pat)) : View(data, i, Len(pat)) = pat}
  IN IF hits = {} THEN npos ELSE SetMin(hits)

(***************************************************************************)
(* absl::SimpleAtoi(): optional ASCII whitespace around                    *)
(* an optionally signed, non-empty run of decimal digits that fits int32.  *)
(***************************************************************************)
kint32max == 2147483647

ascii_isspace(c) == c \in {" ", "\t", LF, CR, "\f"}
IsDigit(c) == c \in {"0", "1", "2", "3", "4", "5", "6", "7", "8", "9"}
DigitVal(c) ==
  CASE c = "0" -> 0 [] c = "1" -> 1 [] c = "2" -> 2 [] c = "3" -> 3
    [] c = "4" -> 4 [] c = "5" -> 5 [] c = "6" -> 6 [] c = "7" -> 7
    [] c = "8" -> 8 [] c = "9" -> 9

RECURSIVE StripLeading(_)
StripLeading(s) ==
  IF s # <<>> /\ ascii_isspace(Head(s)) THEN StripLeading(Tail(s)) ELSE s

RECURSIVE StripTrailing(_)
StripTrailing(s) ==
  IF s # <<>> /\ ascii_isspace(s[Len(s)])
    THEN StripTrailing(SubSeq(s, 1, Len(s) - 1)) ELSE s

\* safe_parse_positive_int: -1 if a character is no digit or the value
\* leaves the int32 range, else the value.
RECURSIVE ParseDigits(_, _)
ParseDigits(s, acc) ==
  IF s = <<>> THEN acc
  ELSE IF ~IsDigit(Head(s)) THEN -1
  ELSE IF acc > kint32max \div 10 THEN -1
  ELSE IF acc * 10 > kint32max - DigitVal(Head(s)) THEN -1
  ELSE ParseDigits(Tail(s), acc * 10 + DigitVal(Head(s)))

SimpleAtoi(text) ==
  LET t == StripTrailing(StripLeading(text))
      negative == t # <<>> /\ Head(t) = "-"
      signed == t # <<>> /\ Head(t) \in {"-", "+"}
      digits == IF signed THEN Tail(t) ELSE t
      magnitude == IF digits = <<>> THEN -1 ELSE ParseDigits(digits, 0)
  IN IF magnitude < 0 THEN [ok |-> FALSE, value |-> 0]
     ELSE [ok |-> TRUE, value |-> IF negative THEN 0 - magnitude ELSE magnitude]


(***************************************************************************)
(* MessageStreamSplitter: pure parts.                                      *)
(***************************************************************************)
\* The return values of ParseHeaderGetBodyOffset() besides an offset.
kHeaderIncomplete == -1
kHeaderInvalid == -2

\* The result of SimpleAtoi() is not tested.
ParseHeaderGetBodyOffset_AtoiUnchecked(data) ==
  LET end_of_header == Find(data, kEndHeaderMarker)
      header_content == View(data, 0, end_of_header)
      found_ContentLength_header == Find(header_content, kContentLengthHeader)
      end_key == found_ContentLength_header + Len(kContentLengthHeader)
      body_size_start_of_value ==
        View(header_content, end_key, Len(header_content) - end_key)
      parsed == SimpleAtoi(body_size_start_of_value)
  IN IF end_of_header = npos
       THEN [body_offset |-> kHeaderIncomplete, body_size |-> 0]
     ELSE IF found_ContentLength_header = npos
       THEN [body_offset |-> kHeaderInvalid, body_size |-> 0]
     ELSE [body_offset |-> end_of_header + Len(kEndHeaderMarker),
           body_size |-> parsed.value]

\* ParseHeaderGetBodyOffset(data, &body_size): the returned offset and the
\* value written to body_size.  On the two early returns body_size is not
\* written; the caller then does not use it (its sum with -1 is shadowed by
\* the test body_offset < 0), so the model carries 0 there.
ParseHeaderGetBodyOffset(data) ==
  LET end_of_header == Find(data, kEndHeaderMarker)
      header_content == View(data, 0, end_of_header)
      found_ContentLength_header == Find(header_content, kContentLengthHeader)
      end_key == found_ContentLength_header + Len(kContentLengthHeader)
      body_size_start_of_value ==
        View(header_content, end_key, Len(header_content) - end_key)
      parsed == SimpleAtoi(body_size_start_of_value)
  IN IF end_of_header = npos
       THEN [body_offset |-> kHeaderIncomplete, body_size |-> 0]
     ELSE IF found_ContentLength_header = npos
       THEN [body_offset |-> kHeaderInvalid, body_size |-> 0]
     ELSE IF ~parsed.ok
       THEN [body_offset |-> kHeaderInvalid, body_size |-> 0]
     ELSE [body_offset |-> end_of_header + Len(kEndHeaderMarker),
           body_size |-> parsed.value]

\* const int message_size = body_offset + body_size;
MessageSize(body_offset, body_size) == body_offset + body_size

\* A message that ends exactly at the end of the data counts as incomplete.
InsufficientData_OffByOne(body_offset, message_size, data_size) ==
  body_offset < 0 \/ message_size >= data_size

\* if (body_offset < 0 || message_size > (int)data->size()) return OkStatus
InsufficientData(body_offset, message_size, data_size) ==
  body_offset < 0 \/ message_size > data_size

\* absl::string_view body(data->data() + body_offset, body_size) with a
\* negative body_size: the int converts to a size_t beyond every buffer, so
\* the view starts at the body offset and reaches past the end of the data.
\* Constructing it breaks the precondition of the view (a hardened build
\* stops there, see OverrunOutcomes); otherwise message_processor_ is called
\* with it.  The model shows the bytes of the view that lie in the data,
\* followed by one element "beyond" for the memory behind them.
Overrun(header, data, body_offset) ==
  [header |-> header,
   body |-> View(data, body_offset, Len(data) - body_offset) \o <<"beyond">>]

\* What a build makes of the oversized view: the length assertion of a
\* hardened absl::string_view ends the process before the call, any other
\* build calls message_processor_ with the view.
OverrunOutcomes == {"abort", "call"}

\* ProcessContainedMessages(&data), as a loop over the offset `start` of the
\* view *data inside the bytes `all` it was constructed over.  The result is
\* the status, the final view (offset and size) and the calls of
\* message_processor_ in order.
RECURSIVE ProcessLoop(_, _, _)
ProcessLoop(all, start, calls) ==
  LET data == View(all, start, Len(all) - start)
      parsed == ParseHeaderGetBodyOffset(data)
      body_offset == parsed.body_offset
      body_size == parsed.body_size
      message_size == MessageSize(body_offset, body_size)
      header == View(data, 0, body_offset)
      body == View(data, body_offset, body_size)
  IN IF data = <<>>
       THEN [status |-> "Ok", start |-> start, size |-> 0, calls |-> calls]
     ELSE IF body_offset = kHeaderInvalid
       THEN [status |-> "InvalidArgument", start |-> start,
             size |-> Len(data), calls |-> calls]
     ELSE IF InsufficientData(body_offset, message_size, Len(data))
       THEN [status |-> "Ok", start |-> start, size |-> Len(data),
             calls |-> calls]
     ELSE IF body_size < 0
       THEN [status |-> "Undefined", start |-> start, size |-> Len(data),
             calls |-> Append(calls, Overrun(header, data, body_offset))]
     ELSE ProcessLoop(all, start + message_size,
                      Append(calls, [header |-> header, body |-> body]))

ProcessContainedMessages(data) == ProcessLoop(data, 0, <<>>)

\* stats_largest_body_ = std::max(stats_largest_body_, body.size()), folded
\* over the calls of one ProcessContainedMessages().
RECURSIVE LargestBody(_, _)
LargestBody(largest, calls) ==
  IF calls = <<>> THEN largest
  ELSE LargestBody(Max(largest, Len(Head(calls).body)), Tail(calls))

\* The model keeps of the read buffer the bytes [0, n) that the current round
\* has placed there: leftover moved to the front, then the bytes read.  The
\* bytes behind them are never read before they are overwritten (pending_data_
\* always lies inside the data of the last round), so they are not carried.

\* No move: the front of the buffer is taken for the leftover.
Memmove_Front(buffer, off, size) == View(buffer, 0, size)

\* memmove(begin_of_read, pending_data_.data(), pending_data_.size()) inside
\* the one buffer: the bytes at [off, off+size) are copied to [0, size).
Memmove(buffer, off, size) == View(buffer, off, size)

\* The read function stores `chunk` at begin_of_read, behind the leftover.
StoreRead(front, chunk) == front \o chunk

\* Only a negative return value counts as a failed read.
ReadFailed_NegativeOnly(bytes_read) == bytes_read < 0

\* if (bytes_read <= 0) return absl::UnavailableError(...)
ReadFailed(bytes_read) == bytes_read <= 0

\* The status ReadInput() returns when the read function delivered nothing.
ReadFailedStatus(bytes_read, pending_size) == "Unavailable"


(***************************************************************************)
(* The input streams: what the client writes, as the concatenation of a    *)
(* few frames.  `kind` records how the frame was built:                    *)
(*   plain        "Content-Length: N" CRLF CRLF and N body bytes           *)
(*   extra_before another header line before the Content-Length line       *)
(*   extra_after  another header line after the Content-Length line        *)
(*   no_length    a header block without a Content-Length line             *)
(*   garbled      a Content-Length value that is not a number              *)
(***************************************************************************)
DigitChar == <<"0", "1", "2", "3", "4", "5", "6", "7", "8", "9">>
Decimal(n) == <<DigitChar[n + 1]>>

kOtherLine == <<"A", ":", " ", "b">>
kCRLF == <<CR, LF>>

MakeFrame(kind, header_lines, body) ==
  [kind |-> kind, header |-> header_lines \o kEndHeaderMarker, body |-> body]

PlainFrame(body) ==
  MakeFrame("plain", kContentLengthHeader \o Decimal(Len(body)), body)
ExtraBeforeFrame(body) ==
  MakeFrame("extra_before",
            kOtherLine \o kCRLF \o kContentLengthHeader \o Decimal(Len(body)),
            body)
ExtraAfterFrame(body) ==
  MakeFrame("extra_after",
            kContentLengthHeader \o Decimal(Len(body)) \o kCRLF \o kOtherLine,
            body)
NoLengthFrame(body) == MakeFrame("no_length", kOtherLine, body)
GarbledFrame(body) ==
  MakeFrame("garbled", kContentLengthHeader \o <<"x", "y", "z">>, body)

\* A Content-Length value with a minus sign: the body follows as if the
\* length were meant without it.
NegativeFrame(body) ==
  MakeFrame("negative",
            kContentLengthHeader \o <<"-">> \o Decimal(Len(body)), body)
\* A frame with a header line that alone is longer than the read buffer.
OversizeFrame(body) ==
  MakeFrame("oversize",
            kOtherLine \o [i \in 1..BufSize |-> "b"] \o kCRLF
              \o kContentLengthHeader \o Decimal(Len(body)),
            body)

FrameCatalogue ==
  { PlainFrame(<<>>),
    PlainFrame(<<"f", "o", "o">>),
    PlainFrame(kEndHeaderMarker),
    ExtraBeforeFrame(<<"h", "i">>),
    ExtraAfterFrame(<<"h", "i">>),
    NoLengthFrame(<<"f", "o", "o">>),
    GarbledFrame(<<"f", "o", "o">>) }

\* A frame the splitter is known to refuse ends the session (SessionOpen), so
\* such a frame is the last one of its stream; its body gives the bytes that
\* follow the refused header.
Refused(f) == f.kind \in {"no_length", "garbled"}
Streams ==
  UNION {{fs \in [1..n -> FrameCatalogue] : \A i \in 1..(n - 1) : ~Refused(fs[i])}
           : n \in 1..MaxFrames}

\* Streams that also hold frames a client must not send: a negative length
\* and a frame that does not fit the read buffer.
UncheckedStreams ==
  UNION {[1..n -> { PlainFrame(<<"f", "o", "o">>),
                    NegativeFrame(<<"f", "o", "o">>),
                    OversizeFrame(<<"f", "o", "o">>) }] : n \in 1..MaxFrames}

FrameBytes(f) == f.header \o f.body

RECURSIVE Concat(_)
Concat(fs) == IF fs = <<>> THEN <<>> ELSE FrameBytes(Head(fs)) \o Concat(Tail(fs))

\* Offset in the stream of the first byte after frame i (0 for i = 0).
FrameEnd(fs, i) == Len(Concat(SubSeq(fs, 1, i)))
\* Offset in the stream of the first byte after the header block of frame i.
HeaderEnd(fs, i) == FrameEnd(fs, i - 1) + Len(fs[i].header)

(***************************************************************************)
(* State.                                                                  *)
(***************************************************************************)
VARIABLES
  \* --- the byte stream (DataStreamSimulator of the tests, stdin in main.cc)
  frames,                  \* the frames the stream is made of
  read_pos,                \* number of bytes of it the read function gave out
  \* --- MessageStreamSplitter
  read_buffer_,            \* the bytes of the buffer in use (at most BufSize)
  pending_off,             \* pending_data_.data() - read_buffer_
  pending_size,            \* pending_data_.size()
  message_processor_,      \* TRUE once SetMessageProcessor() was called
  stats_largest_body_,
  stats_total_bytes_read_,
  \* --- observation of the splitter
  status,                  \* what the last PullFrom() returned ("None" before)
  read_result,             \* how read_fun answered the last ReadInput()
  emitted,                 \* every call of message_processor_: (header, body)
  split_seen               \* TRUE once a pull returned with a partial frame

splitter_vars ==
  <<frames, read_pos, read_buffer_, pending_off, pending_size,
    message_processor_, stats_largest_body_, stats_total_bytes_read_,
    status, read_result, emitted, split_seen>>

Content == Concat(frames)

\* The bytes pending_data_ views.
PendingData == View(read_buffer_, pending_off, pending_size)

SplitterInit ==
  /\ frames \in Streams
  /\ read_pos = 0
  /\ read_buffer_ = <<>>
  /\ pending_off = 0
  /\ pending_size = 0
  /\ message_processor_ = FALSE
  /\ stats_largest_body_ = 0
  /\ stats_total_bytes_read_ = 0
  /\ status = "None"
  /\ read_result = "none"
  /\ emitted = <<>>
  /\ split_seen = FALSE

\* SetMessageProcessor(message_processor)
SetMessageProcessor ==
  /\ ~message_processor_
  /\ message_processor_' = TRUE
  /\ UNCHANGED <<frames, read_pos, read_buffer_, pending_off, pending_size,
                 stats_largest_body_, stats_total_bytes_read_, status,
                 read_result, emitted, split_seen>>

\* PullFrom() before a message processor is set: read_fun is not called.
PullFromNoProcessor ==
  /\ ~message_processor_
  /\ status' = "FailedPrecondition"
  /\ UNCHANGED <<frames, read_pos, read_buffer_, pending_off, pending_size,
                 message_processor_, stats_largest_body_,
                 stats_total_bytes_read_, read_result, emitted, split_seen>>

\* What a read function may return when offered `space` bytes: an error, end
\* of stream, or any positive number of the bytes not yet given out.
ReadResults(space) == {-1, 0} \cup (1..Min(space, Len(Content) - read_pos))

ReadKind(n) == IF n > 0 THEN "data" ELSE IF n = 0 THEN "eof" ELSE "error"

\* ReadInput(read_fun) where read_fun returns n.
ReadInput(n) ==
  LET moved == Memmove(read_buffer_, pending_off, pending_size)
      filled == StoreRead(moved, View(Content, read_pos, n))
      data == View(filled, 0, pending_size + n)
      result == ProcessContainedMessages(data)
  IN /\ read_result' = ReadKind(n)
     /\ IF ReadFailed(n)
          THEN /\ read_buffer_' = moved
               /\ status' = ReadFailedStatus(n, pending_size)
               /\ UNCHANGED <<read_pos, pending_off, pending_size,
                              stats_largest_body_, stats_total_bytes_read_,
                              emitted, split_seen>>
          ELSE IF result.status = "Undefined"
          THEN \* the process does not get past the oversized view: either
               \* it is stopped before the call, or the processor is called
               \* and what follows is whatever reading past the buffer does.
               \E outcome \in OverrunOutcomes :
                 /\ read_buffer_' = filled
                 /\ read_pos' = read_pos + n
                 /\ stats_total_bytes_read_' = stats_total_bytes_read_ + n
                 /\ emitted' =
                      emitted \o
                        (IF outcome = "call" THEN result.calls
                         ELSE SubSeq(result.calls, 1, Len(result.calls) - 1))
                 /\ status' = IF outcome = "call" THEN "Undefined" ELSE "Aborted"
                 /\ stats_largest_body_' =
                      LargestBody(stats_largest_body_,
                                  SubSeq(result.calls, 1, Len(result.calls) - 1))
                 /\ UNCHANGED <<pending_off, pending_size, split_seen>>
          ELSE /\ read_buffer_' = filled
               /\ read_pos' = read_pos + n
               /\ stats_total_bytes_read_' = stats_total_bytes_read_ + n
               /\ emitted' = emitted \o result.calls
               /\ stats_largest_body_' =
                    LargestBody(stats_largest_body_, result.calls)
               /\ status' = result.status
               /\ IF result.status = "Ok"
                    THEN /\ pending_off' = result.start
                         /\ pending_size' = result.size
                    ELSE UNCHANGED <<pending_off, pending_size>>
               /\ split_seen' =
                    (split_seen \/ (result.status = "Ok" /\ result.size > 0))
     /\ UNCHANGED <<frames, message_processor_>>

\* PullFrom(read_fun) with a message processor set.  The callers stop pulling
\* at the first status that is not ok: the reader callback of main.cc returns
\* false then and is deregistered, the tests loop `while (status.ok())`.
SessionOpen == status \in {"None", "Ok", "FailedPrecondition"}

PullFrom ==
  /\ message_processor_
  /\ SessionOpen
  /\ \E n \in ReadResults(BufSize - pending_size) : ReadInput(n)

(***************************************************************************)
(* JSON values.  A member value (id, method, params, result) is a record   *)
(* of its JSON type and its text; a message is a JSON value of some type   *)
(* with, if it is an object, a function from member names to values.       *)
(***************************************************************************)
JNum(text) == [type |-> "number", val |-> text]
JStr(text) == [type |-> "string", val |-> text]
JObj(text) == [type |-> "object", val |-> text]
JNull == [type |-> "null", val |-> "null"]

NoMembers == [k \in {} |-> JNull]
Member(key, value) == [k \in {key} |-> value]
\* The function f extended or overwritten at key: json[key] = value.
SetMember(f, key, value) ==
  [k \in DOMAIN f \cup {key} |-> IF k = key THEN value ELSE f[k]]

\* nlohmann::json::find(key) != end(): only an object has members to find.
HasMember(json, key) == json.type = "object" /\ key \in DOMAIN json.members

\* A default-constructed nlohmann::json (null).
kDefaultJson == [type |-> "null", members |-> NoMembers]

(***************************************************************************)
(* The message bodies handed to DispatchMessage().  `syntax` says whether  *)
(* the text is JSON at all; `json` is the value the text denotes.          *)
(***************************************************************************)
kAbsent == "absent"

IdChoices == {kAbsent, "7", "null"}
MethodChoices == {kAbsent, "foo", "bar", "42"}
ParamsChoices == {kAbsent, "{x:1}"}

IdValue(c) == IF c = "null" THEN JNull ELSE JNum(c)
MethodValue(c) == IF c = "42" THEN JNum(c) ELSE JStr(c)

ObjectMessage(id, method, params) ==
  [type |-> "object",
   members |->
     [k \in {"jsonrpc"}
            \cup (IF id = kAbsent THEN {} ELSE {"id"})
            \cup (IF method = kAbsent THEN {} ELSE {"method"})
            \cup (IF params = kAbsent THEN {} ELSE {"params"}) |->
        CASE k = "jsonrpc" -> JStr("2.0")
          [] k = "id" -> IdValue(id)
          [] k = "method" -> MethodValue(method)
          [] k = "params" -> JObj(params)]]

ObjectMessages ==
  {ObjectMessage(i, m, p) : i \in IdChoices, m \in MethodChoices,
                            p \in ParamsChoices}

Bodies ==
  {[syntax |-> "ok", json |-> j] : j \in ObjectMessages}
    \cup {[syntax |-> "ok", json |-> [type |-> "number", members |-> NoMembers]],
          [syntax |-> "truncated", json |-> kDefaultJson],
          [syntax |-> "ill_formed_utf8", json |-> kDefaultJson]}

\* nlohmann::json::parse(data): throws a parse_error unless the text is JSON.
\* The what() of the error quotes the token last read; control characters
\* are escaped in it, every other byte is copied as it is, so for a body
\* with a byte that is not UTF-8 the what() is not UTF-8 either.
kParseErrorWhat == "[json.exception.parse_error.101] parse error"
kParseErrorWhatRawByte ==
  "[json.exception.parse_error.101] parse error; last read: <byte 0xFF>"
Parse(data) ==
  IF data.syntax = "ok" THEN [ok |-> TRUE, json |-> data.json, what |-> ""]
  ELSE IF data.syntax = "ill_formed_utf8"
    THEN [ok |-> FALSE, json |-> kDefaultJson, what |-> kParseErrorWhatRawByte]
  ELSE [ok |-> FALSE, json |-> kDefaultJson, what |-> kParseErrorWhat]

(***************************************************************************)
(* Handlers.  A registered handler is described by what it does when       *)
(* called: "echo" returns its parameter, "const" returns a fixed value,    *)
(* "ok" (a notification handler) returns, "throw" raises a std::exception. *)
(***************************************************************************)
RequestBehaviours == {"echo", "const", "throw"}
NotificationBehaviours == {"ok", "throw"}
RegisteredNames == {"foo"}

kConstResult == JObj("{some:response}")
kHandlerWhat == "Okay, Houston, we've had a problem here"

\* JSON-RPC error codes.
kParseError == -32700
kMethodNotFound == -32601
kInternalError == -32603

\* req["params"] on a const json: the member if present.  If it is absent
\* the behaviour is undefined (const operator[] of nlohmann::json): the build
\* either stops on the library's assertion or goes on with an unspecified
\* value.  `ub` is that outcome: "abort", or the value read.
UndefinedOutcomes == {"abort", "null", "garbage"}
ParamsRead(req, ub) ==
  IF HasMember(req, "params") THEN req.members["params"]
  ELSE IF ub = "null" THEN JNull ELSE [type |-> "garbage", val |-> ub]
ParamsAbort(req, ub) == ~HasMember(req, "params") /\ ub = "abort"

\* An error reply also gets a null result.
CreateError_WithResult(request, code, message) ==
  LET error == [type |-> "error", code |-> code, val |-> message]
      result == SetMember(SetMember(Member("jsonrpc", JStr("2.0")),
                                    "error", error),
                          "result", JNull)
  IN IF HasMember(request, "id")
       THEN SetMember(result, "id", request.members["id"])
       ELSE result

\* CreateError(request, code, message)
CreateError(request, code, message) ==
  LET error == [type |-> "error", code |-> code, val |-> message]
      result == SetMember(Member("jsonrpc", JStr("2.0")), "error", error)
  IN IF HasMember(request, "id")
       THEN SetMember(result, "id", request.members["id"])
       ELSE result

\* The handler's parameter is sent back as the result.
MakeResponse_EchoParams(request, call_result) ==
  SetMember(SetMember(Member("jsonrpc", JStr("2.0")),
                      "id", request.members["id"]),
            "result",
            IF HasMember(request, "params") THEN request.members["params"]
            ELSE JNull)

\* MakeResponse(request, call_result)
MakeResponse(request, call_result) ==
  SetMember(SetMember(Member("jsonrpc", JStr("2.0")),
                      "id", request.members["id"]),
            "result", call_result)

\* SendReply(response): the chunk handed to write_fun_, the dumped response
\* followed by a newline.
SendReply(response) == [json |-> response, tail |-> "\n"]

\* out_bytes << response dumps with the strict error handler: a string that
\* is not UTF-8 makes it throw a type_error (316) and write_fun_ is not
\* called.  Member values come from parsed (hence valid) text and from the
\* handlers; only the message of a parse error can carry such a string.
DumpThrows(response) ==
  \E k \in DOMAIN response : response[k].val = kParseErrorWhatRawByte

\* statistic_counters_[key]++
Count(counters, key) ==
  [k \in DOMAIN counters \cup {key} |->
     IF k \in DOMAIN counters
       THEN (IF k = key THEN counters[k] + 1 ELSE counters[k])
       ELSE 1]

RECURSIVE CountAll(_, _)
CountAll(counters, keys) ==
  IF keys = <<>> THEN counters
  ELSE CountAll(Count(counters, Head(keys)), Tail(keys))

\* What one handler call does.
Call(map, method, param) == [map |-> map, method |-> method, param |-> param]

\* The effect of a part of DispatchMessage(): how it ends, the chunks written,
\* the handler calls made, the statistic keys counted, the exceptions counted
\* and (for the two Call...() functions) the value returned.
Effect(outcome, writes, calls, keys, exceptions, handled) ==
  [outcome |-> outcome, writes |-> writes, calls |-> calls, keys |-> keys,
   exceptions |-> exceptions, handled |-> handled]

\* An unknown notification is answered with an error.
CallNotification_ReplyUnknown(notifications, req, method, ub) ==
  IF method \notin DOMAIN notifications
    THEN Effect("returned",
                <<SendReply(CreateError(req, kMethodNotFound, "not found"))>>,
                <<>>, <<>>, 0, FALSE)
  ELSE IF ParamsAbort(req, ub)
    THEN Effect("abort", <<>>, <<>>, <<>>, 0, FALSE)
  ELSE IF notifications[method] = "throw"
    THEN Effect("returned", <<>>,
                <<Call("notification", method, ParamsRead(req, ub))>>,
                <<method \o " : " \o kHandlerWhat>>, 1, FALSE)
  ELSE Effect("returned", <<>>,
              <<Call("notification", method, ParamsRead(req, ub))>>,
              <<>>, 0, TRUE)

\* CallNotification(req, method)
CallNotification(notifications, req, method, ub) ==
  IF method \notin DOMAIN notifications
    THEN Effect("returned", <<>>, <<>>, <<>>, 0, FALSE)
  ELSE IF ParamsAbort(req, ub)
    THEN Effect("abort", <<>>, <<>>, <<>>, 0, FALSE)
  ELSE IF notifications[method] = "throw"
    THEN Effect("returned", <<>>,
                <<Call("notification", method, ParamsRead(req, ub))>>,
                <<method \o " : " \o kHandlerWhat>>, 1, FALSE)
  ELSE Effect("returned", <<>>,
              <<Call("notification", method, ParamsRead(req, ub))>>,
              <<>>, 0, TRUE)

\* What a request handler of behaviour b returns for param.
HandlerReturn(b, param) == IF b = "echo" THEN param ELSE kConstResult

\* An unknown method is not answered.
CallRequestHandler_SilentUnknown(handlers, req, method, ub) ==
  IF method \notin DOMAIN handlers
    THEN Effect("returned", <<>>, <<>>, <<>>, 0, FALSE)
  ELSE IF ParamsAbort(req, ub)
    THEN Effect("abort", <<>>, <<>>, <<>>, 0, FALSE)
  ELSE IF handlers[method] = "throw"
    THEN Effect("returned",
                <<SendReply(CreateError(req, kInternalError, kHandlerWhat))>>,
                <<Call("request", method, ParamsRead(req, ub))>>,
                <<method \o " : " \o kHandlerWhat>>, 1, FALSE)
  ELSE Effect("returned",
              <<SendReply(MakeResponse(
                  req, HandlerReturn(handlers[method], ParamsRead(req, ub))))>>,
              <<Call("request", method, ParamsRead(req, ub))>>,
              <<>>, 0, TRUE)

\* A handler that raises leaves the request unanswered.
CallRequestHandler_RaiseUnanswered(handlers, req, method, ub) ==
  IF method \notin DOMAIN handlers
    THEN Effect("returned",
                <<SendReply(CreateError(req, kMethodNotFound,
                                        "method '" \o method \o "' not found."))>>,
                <<>>, <<>>, 0, FALSE)
  ELSE IF ParamsAbort(req, ub)
    THEN Effect("abort", <<>>, <<>>, <<>>, 0, FALSE)
  ELSE IF handlers[method] = "throw"
    THEN Effect("returned", <<>>,
                <<Call("request", method, ParamsRead(req, ub))>>,
                <<method \o " : " \o kHandlerWhat>>, 1, FALSE)
  ELSE Effect("returned",
              <<SendReply(MakeResponse(
                  req, HandlerReturn(handlers[method], ParamsRead(req, ub))))>>,
              <<Call("request", method, ParamsRead(req, ub))>>,
              <<>>, 0, TRUE)

\* CallRequestHandler(req, method)
CallRequestHandler(handlers, req, method, ub) ==
  IF method \notin DOMAIN handlers
    THEN Effect("returned",
                <<SendReply(CreateError(req, kMethodNotFound,
                                        "method '" \o method \o "' not found."))>>,
                <<>>, <<>>, 0, FALSE)
  ELSE IF ParamsAbort(req, ub)
    THEN Effect("abort", <<>>, <<>>, <<>>, 0, FALSE)
  ELSE IF handlers[method] = "throw"
    THEN Effect("returned",
                <<SendReply(CreateError(req, kInternalError, kHandlerWhat))>>,
                <<Call("request", method, ParamsRead(req, ub))>>,
                <<method \o " : " \o kHandlerWhat>>, 1, FALSE)
  ELSE Effect("returned",
              <<SendReply(MakeResponse(
                  req, HandlerReturn(handlers[method], ParamsRead(req, ub))))>>,
              <<Call("request", method, ParamsRead(req, ub))>>,
              <<>>, 0, TRUE)

\* const bool is_notification = (request.find("id") == request.end());
IsNotification(request) == ~HasMember(request, "id")

\* The statistics key of a dispatched method.
StatKey(method, handled, is_notification) ==
  method \o (IF handled THEN "" ELSE " (unhandled)")
         \o (IF is_notification THEN "  ev" ELSE " RPC")

\* A message without method and without id is dropped silently.
DispatchMessage_SilentWithoutId(handlers, notifications, data, ub) ==
  LET parsed == Parse(data)
      request == parsed.json
      method == request.members["method"].val
      is_notification == IsNotification(request)
      called == IF is_notification
                  THEN CallNotification(notifications, request, method, ub)
                  ELSE CallRequestHandler(handlers, request, method, ub)
  IN IF ~parsed.ok
       THEN IF DumpThrows(CreateError(request, kParseError, parsed.what))
              \* thrown from inside the catch block: it leaves DispatchMessage()
              THEN Effect("threw", <<>>, <<>>, <<parsed.what>>, 1, FALSE)
              ELSE Effect("returned",
                          <<SendReply(CreateError(request, kParseError,
                                                  parsed.what))>>,
                          <<>>, <<parsed.what>>, 1, FALSE)
     ELSE IF ~HasMember(request, "method")
       THEN Effect("returned",
                   IF is_notification THEN <<>>
                   ELSE <<SendReply(CreateError(request, kMethodNotFound,
                                                "Method required in request"))>>,
                   <<>>, <<"Request without method">>, 0, FALSE)
     ELSE IF request.members["method"].type # "string"
       THEN Effect("threw", <<>>, <<>>, <<>>, 0, FALSE)
     ELSE IF called.outcome = "abort" THEN called
     ELSE Effect("returned", called.writes, called.calls,
                 called.keys \o <<StatKey(method, called.handled,
                                          is_notification)>>,
                 called.exceptions, called.handled)

\* DispatchMessage(data) of a dispatcher with the given handler maps.
DispatchMessage(handlers, notifications, data, ub) ==
  LET parsed == Parse(data)
      request == parsed.json
      method == request.members["method"].val
      is_notification == IsNotification(request)
      called == IF is_notification
                  THEN CallNotification(notifications, request, method, ub)
                  ELSE CallRequestHandler(handlers, request, method, ub)
  IN IF ~parsed.ok
       THEN IF DumpThrows(CreateError(request, kParseError, parsed.what))
              \* thrown from inside the catch block: it leaves DispatchMessage()
              THEN Effect("threw", <<>>, <<>>, <<parsed.what>>, 1, FALSE)
              ELSE Effect("returned",
                          <<SendReply(CreateError(request, kParseError,
                                                  parsed.what))>>,
                          <<>>, <<parsed.what>>, 1, FALSE)
     ELSE IF ~HasMember(request, "method")
       THEN Effect("returned",
                   <<SendReply(CreateError(request, kMethodNotFound,
                                           "Method required in request"))>>,
                   <<>>, <<"Request without method">>, 0, FALSE)
     ELSE IF request.members["method"].type # "string"
       \* const std::string &method = request["method"] throws a type_error
       \* that nothing in DispatchMessage() catches.
       THEN Effect("threw", <<>>, <<>>, <<>>, 0, FALSE)
     ELSE IF called.outcome = "abort" THEN called
     ELSE Effect("returned", called.writes, called.calls,
                 called.keys \o <<StatKey(method, called.handled,
                                          is_notification)>>,
                 called.exceptions, called.handled)

(***************************************************************************)
(* JsonRpcDispatcher: state and operations.                                *)
(***************************************************************************)
\* Largest number of DispatchMessage() calls in one run.
MaxDispatch == 2

VARIABLES
  handlers_,               \* method name -> behaviour of the request handler
  notifications_,          \* method name -> behaviour of the notification handler
  statistic_counters_,     \* key -> count
  exception_count_,
  \* --- observation of the dispatcher
  dispatched,              \* number of DispatchMessage() calls so far
  last                     \* the last DispatchMessage(): body and effect

dispatcher_vars ==
  <<handlers_, notifications_, statistic_counters_, exception_count_,
    dispatched, last>>

kNoBody == [syntax |-> "none", json |-> kDefaultJson]

DispatcherInit ==
  /\ handlers_ = [k \in {} |-> "echo"]
  /\ notifications_ = [k \in {} |-> "ok"]
  /\ statistic_counters_ = [k \in {} |-> 0]
  /\ exception_count_ = 0
  /\ dispatched = 0
  /\ last = [body |-> kNoBody, outcome |-> "none", writes |-> <<>>,
             calls |-> <<>>]

\* Handlers are registered during startup, before the first message.
\* AddRequestHandler(method_name, fun): insert() keeps an existing entry.
AddRequestHandler(method_name, fun) ==
  /\ dispatched = 0
  /\ method_name \notin DOMAIN handlers_
  /\ handlers_' = [k \in DOMAIN handlers_ \cup {method_name} |->
                     IF k = method_name THEN fun ELSE handlers_[k]]
  /\ UNCHANGED <<notifications_, statistic_counters_, exception_count_,
                 dispatched, last>>

\* AddNotificationHandler(method_name, fun)
AddNotificationHandler(method_name, fun) ==
  /\ dispatched = 0
  /\ method_name \notin DOMAIN notifications_
  /\ notifications_' = [k \in DOMAIN notifications_ \cup {method_name} |->
                          IF k = method_name THEN fun ELSE notifications_[k]]
  /\ UNCHANGED <<handlers_, statistic_counters_, exception_count_,
                 dispatched, last>>

\* DispatchMessage(data).  After the library's assertion has stopped the
\* process nothing more is dispatched.
Dispatch(data, ub) ==
  LET effect == DispatchMessage(handlers_, notifications_, data, ub)
  IN /\ dispatched < MaxDispatch
     /\ last.outcome # "abort"
     /\ dispatched' = dispatched + 1
     /\ statistic_counters_' = CountAll(statistic_counters_, effect.keys)
     /\ exception_count_' = exception_count_ + effect.exceptions
     /\ last' = [body |-> data, outcome |-> effect.outcome,
                 writes |-> effect.writes, calls |-> effect.calls]
     /\ UNCHANGED <<handlers_, notifications_>>

RegisterRequestHandler ==
  \E m \in RegisteredNames, f \in RequestBehaviours : AddRequestHandler(m, f)
RegisterNotificationHandler ==
  \E m \in RegisteredNames, f \in NotificationBehaviours :
    AddNotificationHandler(m, f)
DispatchAny == \E data \in Bodies, ub \in UndefinedOutcomes : Dispatch(data, ub)

(***************************************************************************)
(* The server shell of main.cc: the splitter's message processor is        *)
(* DispatchMessage() of the dispatcher, so every body the splitter         *)
(* extracts is dispatched inside the pull that completed its frame.        *)
(***************************************************************************)
\* Capacity of the server's read buffer (1 MiB in main.cc): room for two
\* frames of the server's streams.
ServerBufSize == 48

\* The message texts of the server's streams, each a short stand-in for a
\* JSON text, and the bodies they denote: a request with a handler, a
\* notification with a handler, a request without a handler, and a text cut
\* short; for the session's end a shutdown request "S", an exit notification
\* "E" and a request "M" whose method is a number.  Every message carries
\* params.
kRequestText == <<"R">>
kNotificationText == <<"N">>
kUnknownText == <<"U">>
kTruncatedText == <<"{">>
ServerTexts == {kRequestText, kNotificationText, kUnknownText, kTruncatedText}

\* What nlohmann::json::parse() is given, for a body cut out of the stream.
Denoted(text) ==
  IF text = kRequestText
    THEN [syntax |-> "ok", json |-> ObjectMessage("7", "foo", "{x:1}")]
  ELSE IF text = kNotificationText
    THEN [syntax |-> "ok", json |-> ObjectMessage(kAbsent, "foo", "{x:1}")]
  ELSE IF text = kUnknownText
    THEN [syntax |-> "ok", json |-> ObjectMessage("null", "bar", "{x:1}")]
  ELSE IF text = <<"S">>
    THEN [syntax |-> "ok", json |-> ObjectMessage("7", "shutdown", "{x:1}")]
  ELSE IF text = <<"E">>
    THEN [syntax |-> "ok", json |-> ObjectMessage(kAbsent, "exit", "{x:1}")]
  ELSE IF text = <<"M">>
    THEN [syntax |-> "ok", json |-> ObjectMessage("7", "42", "{x:1}")]
  ELSE [syntax |-> "truncated", json |-> kDefaultJson]

ServerStreams ==
  UNION {[1..n -> {PlainFrame(t) : t \in ServerTexts}] : n \in 1..MaxFrames}

\* The handlers main.cc registers before the loop starts: a request handler
\* that returns or raises, a notification handler.
ServerHandlers == {[k \in RegisteredNames |-> b] : b \in {"echo", "throw"}}
ServerNotifications == {[k \in RegisteredNames |-> "ok"]}

\* What one DispatchMessage() does that can be seen from outside, in the
\* order it does it: it is entered, calls a handler, writes a reply.
Event(seq, what, text) == [seq |-> seq, what |-> what, text |-> text]
DispatchEvents(seq, text, effect) ==
  <<Event(seq, "dispatch", text)>>
    \o [i \in 1..Len(effect.calls) |-> Event(seq, "call", text)]
    \o [i \in 1..Len(effect.writes) |-> Event(seq, "write", text)]

\* The dispatcher's state as one value, for running it over a chunk.
Dispatcher(counters, exceptions, count, latest, events) ==
  [statistic_counters_ |-> counters, exception_count_ |-> exceptions,
   dispatched |-> count, last |-> latest, trace |-> events]

\* The replies of a chunk are written after its last message is dispatched.
RECURSIVE DispatchAll_RepliesAfterChunk(_, _, _, _)
DispatchAll_RepliesAfterChunk(handlers, notifications, d, bodies) ==
  IF bodies = <<>> THEN d
  ELSE LET text == Head(bodies)
           data == Denoted(text)
           effect == DispatchMessage(handlers, notifications, data, "abort")
           seq == d.dispatched + 1
           events == DispatchEvents(seq, text, effect)
           IsWrite(e) == e.what = "write"
           NoWrite(e) == e.what # "write"
           rest == DispatchAll_RepliesAfterChunk(
                     handlers, notifications,
                     Dispatcher(CountAll(d.statistic_counters_, effect.keys),
                                d.exception_count_ + effect.exceptions,
                                seq,
                                [body |-> data, outcome |-> effect.outcome,
                                 writes |-> effect.writes,
                                 calls |-> effect.calls],
                                d.trace),
                     Tail(bodies))
       IN [rest EXCEPT !.trace =
             d.trace \o SelectSeq(events, NoWrite)
               \o SubSeq(rest.trace, Len(d.trace) + 1, Len(rest.trace))
               \o SelectSeq(events, IsWrite)]

\* The message processor called for each body of one
\* ProcessContainedMessages(), in the order of its calls: each call is a
\* complete DispatchMessage().  (The `ub` argument is not used: every message
\* of the server's streams carries params.)
RECURSIVE DispatchAll(_, _, _, _)
DispatchAll(handlers, notifications, d, bodies) ==
  IF bodies = <<>> THEN d
  ELSE LET text == Head(bodies)
           data == Denoted(text)
           effect == DispatchMessage(handlers, notifications, data, "abort")
           seq == d.dispatched + 1
       IN DispatchAll(
            handlers, notifications,
            Dispatcher(CountAll(d.statistic_counters_, effect.keys),
                       d.exception_count_ + effect.exceptions,
                       seq,
                       [body |-> data, outcome |-> effect.outcome,
                        writes |-> effect.writes, calls |-> effect.calls],
                       d.trace \o DispatchEvents(seq, text, effect)),
            Tail(bodies))

VARIABLES
  trace,                   \* the events of all dispatches of the server
  shutdown_requested,      \* bool shutdown_requested of main()
  reader                   \* what the reader callback returned last: "none",
                           \* "true", "false", or "escaped" when an exception
                           \* left it

server_vars == <<trace, shutdown_requested, reader>>

\* return status.ok() && !shutdown_requested;
ReaderReturns(pulled, requested) == pulled = "Ok" /\ ~requested

\* main.cc before file_multiplexer.Loop(): splitter and dispatcher are
\* constructed, the message processor is set, the handlers are registered.
ServerInit ==
  /\ frames \in ServerStreams
  /\ read_pos = 0
  /\ read_buffer_ = <<>>
  /\ pending_off = 0
  /\ pending_size = 0
  /\ message_processor_ = TRUE
  /\ stats_largest_body_ = 0
  /\ stats_total_bytes_read_ = 0
  /\ status = "None"
  /\ read_result = "none"
  /\ emitted = <<>>
  /\ split_seen = FALSE
  /\ handlers_ \in ServerHandlers
  /\ notifications_ \in ServerNotifications
  /\ statistic_counters_ = [k \in {} |-> 0]
  /\ exception_count_ = 0
  /\ dispatched = 0
  /\ last = [body |-> kNoBody, outcome |-> "none", writes |-> <<>>,
             calls |-> <<>>]
  /\ trace = <<>>
  /\ shutdown_requested = FALSE
  /\ reader = "none"

\* The reader callback of main.cc: one PullFrom() on stdin, whose message
\* processor dispatches each body.
ServerPull ==
  /\ message_processor_
  /\ SessionOpen
  /\ \E n \in ReadResults(ServerBufSize - pending_size) :
       /\ ReadInput(n)
       /\ LET bodies == [i \in 1..(Len(emitted') - Len(emitted)) |->
                          emitted'[Len(emitted) + i].body]
              d == DispatchAll(handlers_, notifications_,
                               Dispatcher(statistic_counters_, exception_count_,
                                          dispatched, last, trace),
                               bodies)
          IN /\ statistic_counters_' = d.statistic_counters_
             /\ exception_count_' = d.exception_count_
             /\ dispatched' = d.dispatched
             /\ last' = d.last
             /\ trace' = d.trace
  /\ reader' = IF ReaderReturns(status', shutdown_requested)
                 THEN "true" ELSE "false"
  /\ UNCHANGED <<handlers_, notifications_, shutdown_requested>>

(***************************************************************************)
(* FDMultiplexer (fd-mux.cc).  A handler is described by what it does when *)
(* called: "keep" returns true, "drop" returns false, "spawn" registers    *)
(* another handler from inside the call and returns true.                  *)
(***************************************************************************)
\* Largest file descriptor registered from outside a handler.
MaxFd == 1
\* Largest number of idle handlers registered before the loop.
MaxIdle == 2
\* Largest number of SingleCycle() calls of one Loop().
MaxCycles == 2

Fds == 0..MaxFd
HandlerBehaviours == {"keep", "drop", "spawn"}

\* The value a handler returns: keep_handler.
Returns(handler) == handler # "drop"

\* The fd a "spawn" handler running for `fd` registers, with a "drop"
\* handler.
SpawnedFd(fd) == fd + 1

\* An existing handler is replaced, and the call still reports false.
Insert_Overwrite(handlers, fd, handler) ==
  [map |-> [k \in DOMAIN handlers \cup {fd} |->
              IF k = fd THEN handler ELSE handlers[k]],
   second |-> fd \notin DOMAIN handlers]

\* read_handlers_.insert({fd, handler}): the map afterwards and .second.
Insert(handlers, fd, handler) ==
  IF fd \in DOMAIN handlers
    THEN [map |-> handlers, second |-> FALSE]
    ELSE [map |-> [k \in DOMAIN handlers \cup {fd} |->
                     IF k = fd THEN handler ELSE handlers[k]],
          second |-> TRUE]

\* handlers->erase(it)
Erase(handlers, fd) == [k \in DOMAIN handlers \ {fd} |-> handlers[k]]

\* The key behind `it` in the map (std::next(it), or what erase(it)
\* returns), kEnd for end().
kEnd == -1
NextKey(handlers, it) ==
  LET behind == {k \in DOMAIN handlers : k > it}
  IN IF behind = {} THEN kEnd ELSE SetMin(behind)
Begin(handlers) == NextKey(handlers, kEnd)

\* One call of a handler, as recorded: fd is kEnd for an idle handler.
Called(kind, fd, handler) == [kind |-> kind, fd |-> fd, handler |-> handler]

\* The map after the read handler of `it` has run.
RunReadHandler(handlers, it) ==
  IF handlers[it] = "spawn"
    THEN Insert(handlers, SpawnedFd(it), "drop").map
    ELSE handlers

\* Every registered handler is called, ready or not.
RECURSIVE CallHandlers_IgnoreFdSet(_, _, _, _, _)
CallHandlers_IgnoreFdSet(to_call_fd_set, available_fds, handlers, it, called) ==
  IF it = kEnd
    THEN [handlers |-> handlers, called |-> called]
  ELSE LET ran == RunReadHandler(handlers, it)
           keep_handler == Returns(handlers[it])
       IN CallHandlers_IgnoreFdSet(
            to_call_fd_set, available_fds,
            IF keep_handler THEN ran ELSE Erase(ran, it),
            NextKey(ran, it),
            Append(called, Called("read", it, handlers[it])))

\* CallHandlers(to_call_fd_set, available_fds, handlers), from iterator `it`
\* on: the map afterwards and the calls made.
RECURSIVE CallHandlers(_, _, _, _, _)
CallHandlers(to_call_fd_set, available_fds, handlers, it, called) ==
  IF available_fds = 0 \/ it = kEnd
    THEN [handlers |-> handlers, called |-> called]
  ELSE IF it \in to_call_fd_set
    THEN LET ran == RunReadHandler(handlers, it)
             keep_handler == Returns(handlers[it])
         IN CallHandlers(to_call_fd_set, available_fds - 1,
                         IF keep_handler THEN ran ELSE Erase(ran, it),
                         NextKey(ran, it),
                         Append(called, Called("read", it, handlers[it])))
  ELSE CallHandlers(to_call_fd_set, available_fds, handlers,
                    NextKey(handlers, it), called)

\* The list after the idle handler at position i has run: RunOnIdle() from
\* inside appends to the list being walked.
RunIdleHandler(idle_handlers, i) ==
  IF idle_handlers[i] = "spawn" THEN Append(idle_handlers, "drop")
  ELSE idle_handlers

\* idle_handlers_.erase(it)
EraseAt(list, i) == SubSeq(list, 1, i - 1) \o SubSeq(list, i + 1, Len(list))

\* The handler behind an erased one is passed over: the iterator erase()
\* returns is advanced once more.
RECURSIVE CallIdleHandlers_SkipAfterErase(_, _, _)
CallIdleHandlers_SkipAfterErase(idle_handlers, i, called) ==
  IF i > Len(idle_handlers)
    THEN [idle_handlers |-> idle_handlers, called |-> called]
  ELSE LET ran == RunIdleHandler(idle_handlers, i)
           record == Append(called, Called("idle", kEnd, idle_handlers[i]))
       IN IF Returns(idle_handlers[i])
            THEN CallIdleHandlers_SkipAfterErase(ran, i + 1, record)
            ELSE CallIdleHandlers_SkipAfterErase(EraseAt(ran, i), i + 1, record)

\* The loop over idle_handlers_ of a timeout cycle, from position i on.
RECURSIVE CallIdleHandlers(_, _, _)
CallIdleHandlers(idle_handlers, i, called) ==
  IF i > Len(idle_handlers)
    THEN [idle_handlers |-> idle_handlers, called |-> called]
  ELSE LET ran == RunIdleHandler(idle_handlers, i)
           keep_handler == Returns(idle_handlers[i])
           record == Append(called, Called("idle", kEnd, idle_handlers[i]))
       IN IF keep_handler THEN CallIdleHandlers(ran, i + 1, record)
          ELSE CallIdleHandlers(EraseAt(ran, i), i, record)

\* What select() may answer for the registered descriptors: -1, 0 (timeout)
\* or the number of descriptors left in the set, those being ready.
Select(fds_ready, read_fds) == [fds_ready |-> fds_ready, read_fds |-> read_fds]
SelectResults(read_handlers) ==
  {Select(-1, {}), Select(0, {})}
    \cup {Select(Cardinality(S), S) : S \in SUBSET DOMAIN read_handlers \ {{}}}

\* What one SingleCycle() did: its return value, the maps afterwards, whether
\* it waited in select(), what select() answered and the handler calls.
Cycle(returns, read_handlers, idle_handlers, kind, ready, called) ==
  [returns |-> returns, read_handlers |-> read_handlers,
   idle_handlers |-> idle_handlers, kind |-> kind, ready |-> ready,
   called |-> called]

\* int maxfd = -1; for (...) maxfd = std::max(maxfd, it.first);
RECURSIVE MaxFdOf(_, _)
MaxFdOf(maxfd, keys) ==
  IF keys = {} THEN maxfd
  ELSE LET k == CHOOSE k \in keys : TRUE
       IN MaxFdOf(Max(maxfd, k), keys \ {k})

\* The timeout branch of SingleCycle().
IdleRound(read_handlers, idle_handlers) ==
  LET idle == CallIdleHandlers(idle_handlers, 1, <<>>)
  IN Cycle(TRUE, read_handlers, idle.idle_handlers, "timeout", {},
           idle.called)

\* The idle handlers run at the end of every cycle that called a handler.
ReadyRound_ThenIdle(read_handlers, idle_handlers, select) ==
  LET read == CallHandlers(select.read_fds, select.fds_ready, read_handlers,
                           Begin(read_handlers), <<>>)
      idle == CallIdleHandlers(idle_handlers, 1, read.called)
  IN Cycle(TRUE, read.handlers, idle.idle_handlers, "ready", select.read_fds,
           idle.called)

\* The branch of SingleCycle() for fds_ready > 0.
ReadyRound(read_handlers, idle_handlers, select) ==
  LET read == CallHandlers(select.read_fds, select.fds_ready, read_handlers,
                           Begin(read_handlers), <<>>)
  IN Cycle(TRUE, read.handlers, idle_handlers, "ready", select.read_fds,
           read.called)

\* The cycle waits as long as an idle handler is registered.
SingleCycle_IdleKeepsWaiting(read_handlers, idle_handlers, select) ==
  IF MaxFdOf(-1, DOMAIN read_handlers) < 0 /\ idle_handlers = <<>>
    THEN Cycle(FALSE, read_handlers, idle_handlers, "no_fds", {}, <<>>)
  ELSE IF select.fds_ready < 0
    THEN Cycle(FALSE, read_handlers, idle_handlers, "failed", {}, <<>>)
  ELSE IF select.fds_ready = 0
    THEN IdleRound(read_handlers, idle_handlers)
  ELSE ReadyRound(read_handlers, idle_handlers, select)

\* SingleCycle(timeout_ms), select() answering `select`.
SingleCycle(read_handlers, idle_handlers, select) ==
  IF MaxFdOf(-1, DOMAIN read_handlers) < 0
    THEN Cycle(FALSE, read_handlers, idle_handlers, "no_fds", {}, <<>>)
  ELSE IF select.fds_ready < 0
    THEN Cycle(FALSE, read_handlers, idle_handlers, "failed", {}, <<>>)
  ELSE IF select.fds_ready = 0
    THEN IdleRound(read_handlers, idle_handlers)
  ELSE ReadyRound(read_handlers, idle_handlers, select)

VARIABLES
  read_handlers_,          \* fd -> handler
  idle_handlers_,          \* the list of idle handlers
  \* --- observation of the multiplexer
  loop,                    \* "setup" before Loop(), "running", "returned"
  cycles,                  \* number of SingleCycle() calls so far
  cycle,                   \* what the last SingleCycle() did
  run_on_readable          \* the last RunOnReadable() from outside: fd,
                           \* handler, return value

mux_vars ==
  <<read_handlers_, idle_handlers_, loop, cycles, cycle, run_on_readable>>

kNoCycle == [kind |-> "none", ready |-> {}, called |-> <<>>, returns |-> TRUE]
kNoRunOnReadable == [fd |-> kEnd, handler |-> "none", returns |-> FALSE]

MuxInit ==
  /\ read_handlers_ = [k \in {} |-> "keep"]
  /\ idle_handlers_ = <<>>
  /\ loop = "setup"
  /\ cycles = 0
  /\ cycle = kNoCycle
  /\ run_on_readable = kNoRunOnReadable

\* RunOnReadable(fd, handler), called before Loop().
RunOnReadable(fd, handler) ==
  LET inserted == Insert(read_handlers_, fd, handler)
  IN /\ loop = "setup"
     /\ read_handlers_' = inserted.map
     /\ run_on_readable' =
          [fd |-> fd, handler |-> handler, returns |-> inserted.second]
     /\ UNCHANGED <<idle_handlers_, loop, cycles, cycle>>

\* RunOnIdle(handler), called before Loop().
RunOnIdle(handler) ==
  /\ loop = "setup"
  /\ Len(idle_handlers_) < MaxIdle
  /\ idle_handlers_' = Append(idle_handlers_, handler)
  /\ UNCHANGED <<read_handlers_, loop, cycles, cycle, run_on_readable>>

\* Loop() is entered.
Loop ==
  /\ loop = "setup"
  /\ loop' = "running"
  /\ UNCHANGED <<read_handlers_, idle_handlers_, cycles, cycle,
                 run_on_readable>>

\* One round of while (SingleCycle(timeout)) {}.
LoopCycle ==
  /\ loop = "running"
  /\ cycles < MaxCycles
  /\ \E select \in SelectResults(read_handlers_) :
       \E c \in {SingleCycle(read_handlers_, idle_handlers_, select)} :
          /\ read_handlers_' = c.read_handlers
          /\ idle_handlers_' = c.idle_handlers
          /\ loop' = IF c.returns THEN "running" ELSE "returned"
          /\ cycle' = [kind |-> c.kind, ready |-> c.ready,
                       called |-> c.called, returns |-> c.returns]
  /\ cycles' = cycles + 1
  /\ UNCHANGED run_on_readable

RegisterReadable ==
  \E fd \in Fds, h \in HandlerBehaviours : RunOnReadable(fd, h)
RegisterIdle == \E h \in HandlerBehaviours : RunOnIdle(h)

(***************************************************************************)
(* The loop of main.cc: the reader callback on stdin and the idle callback *)
(* registered with the multiplexer, the handlers for shutdown and exit     *)
(* registered with the dispatcher.                                         *)
(***************************************************************************)
ShellStreams ==
  UNION {[1..n -> {PlainFrame(t) : t \in {kNotificationText, <<"S">>, <<"E">>,
                                          <<"M">>}}] : n \in 1..MaxFrames}

\* main.cc up to file_multiplexer.Loop(): the shutdown request handler, the
\* notification handlers, the reader on fd 0 and the idle callback.
ShellInit ==
  /\ frames \in ShellStreams
  /\ read_pos = 0
  /\ read_buffer_ = <<>>
  /\ pending_off = 0
  /\ pending_size = 0
  /\ message_processor_ = TRUE
  /\ stats_largest_body_ = 0
  /\ stats_total_bytes_read_ = 0
  /\ status = "None"
  /\ read_result = "none"
  /\ emitted = <<>>
  /\ split_seen = FALSE
  /\ handlers_ = [k \in {"shutdown"} |-> "const"]
  /\ notifications_ = [k \in {"exit", "foo"} |-> "ok"]
  /\ statistic_counters_ = [k \in {} |-> 0]
  /\ exception_count_ = 0
  /\ dispatched = 0
  /\ last = [body |-> kNoBody, outcome |-> "none", writes |-> <<>>,
             calls |-> <<>>]
  /\ trace = <<>>
  /\ shutdown_requested = FALSE
  /\ reader = "none"
  /\ read_handlers_ = [k \in {0} |-> "keep"]
  /\ idle_handlers_ = <<"keep">>
  /\ loop = "setup"
  /\ cycles = 0
  /\ cycle = kNoCycle
  /\ run_on_readable = kNoRunOnReadable

\* The first of the bodies whose DispatchMessage() does not return (0 if all
\* return): the message processor has no try block, so what escapes
\* DispatchMessage() leaves PullFrom(), the reader callback and Loop().
FirstEscape(handlers, notifications, bodies) ==
  LET escaping ==
        {i \in 1..Len(bodies) :
           DispatchMessage(handlers, notifications, Denoted(bodies[i]),
                           "abort").outcome # "returned"}
  IN IF escaping = {} THEN 0 ELSE SetMin(escaping)

\* shutdown_requested = true in the handlers of shutdown and exit: one of
\* them was called by the dispatches behind event number `from`.
SessionEnd(events, from) ==
  \E i \in (from + 1)..Len(events) :
    /\ events[i].what = "call"
    /\ Denoted(events[i].text).json.members["method"].val
         \in {"shutdown", "exit"}

\* A cycle in which select() reports stdin readable: the reader callback
\* pulls once, read() returning n, and its return value decides whether it
\* stays registered.
ReaderCycle(select, n) ==
  \E result \in {ProcessContainedMessages(
                   View(StoreRead(Memmove(read_buffer_, pending_off,
                                          pending_size),
                                  View(Content, read_pos, n)),
                        0, pending_size + n))} :
  \E bodies \in {IF ReadFailed(n) THEN <<>>
                 ELSE [i \in 1..Len(result.calls) |-> result.calls[i].body]} :
  \E escape \in {FirstEscape(handlers_, notifications_, bodies)} :
  \E d \in {DispatchAll(handlers_, notifications_,
                        Dispatcher(statistic_counters_, exception_count_,
                                   dispatched, last, trace),
                        IF escape = 0 THEN bodies
                        ELSE SubSeq(bodies, 1, escape))} :
  \E requested \in {shutdown_requested \/ SessionEnd(d.trace, Len(trace))} :
     /\ statistic_counters_' = d.statistic_counters_
     /\ exception_count_' = d.exception_count_
     /\ dispatched' = d.dispatched
     /\ last' = d.last
     /\ trace' = d.trace
     /\ shutdown_requested' = requested
     /\ IF escape = 0
          THEN /\ ReadInput(n)
               /\ reader' = IF ReaderReturns(status', requested)
                              THEN "true" ELSE "false"
               /\ \E c \in {SingleCycle(
                               [fd \in DOMAIN read_handlers_ |->
                                  IF ReaderReturns(status', requested)
                                    THEN "keep" ELSE "drop"],
                               idle_handlers_, select)} :
                    /\ read_handlers_' =
                         [fd \in DOMAIN c.read_handlers |-> read_handlers_[fd]]
                    /\ idle_handlers_' = c.idle_handlers
                    /\ loop' = IF c.returns THEN "running" ELSE "returned"
                    /\ cycle' = [kind |-> c.kind, ready |-> c.ready,
                                 called |-> c.called, returns |-> c.returns]
          ELSE \* the exception leaves ProcessContainedMessages() behind the
               \* call: no status, pending_data_ as before, no return of the
               \* callback or of SingleCycle(); nothing catches it in main().
               /\ read_result' = ReadKind(n)
               /\ read_buffer_' =
                    StoreRead(Memmove(read_buffer_, pending_off, pending_size),
                              View(Content, read_pos, n))
               /\ read_pos' = read_pos + n
               /\ stats_total_bytes_read_' = stats_total_bytes_read_ + n
               /\ emitted' = emitted \o SubSeq(result.calls, 1, escape)
               /\ stats_largest_body_' =
                    LargestBody(stats_largest_body_,
                                SubSeq(result.calls, 1, escape - 1))
               /\ reader' = "escaped"
               /\ loop' = "terminated"
               /\ UNCHANGED <<frames, message_processor_, status, pending_off,
                              pending_size, split_seen, read_handlers_,
                              idle_handlers_, cycle>>
     /\ UNCHANGED <<handlers_, notifications_, cycles, run_on_readable>>

\* One round of while (SingleCycle(timeout)) {} in main.cc.
ShellCycle ==
  /\ loop = "running"
  /\ \E select \in SelectResults(read_handlers_) :
       IF MaxFdOf(-1, DOMAIN read_handlers_) >= 0 /\ select.fds_ready > 0
         THEN \E n \in ReadResults(ServerBufSize - pending_size) :
                ReaderCycle(select, n)
         ELSE /\ \E c \in {SingleCycle(read_handlers_, idle_handlers_,
                                       select)} :
                   /\ read_handlers_' = c.read_handlers
                   /\ idle_handlers_' = c.idle_handlers
                   /\ loop' = IF c.returns THEN "running" ELSE "returned"
                   /\ cycle' = [kind |-> c.kind, ready |-> c.ready,
                                called |-> c.called, returns |-> c.returns]
              /\ UNCHANGED <<splitter_vars, dispatcher_vars, server_vars,
                             cycles, run_on_readable>>

(***************************************************************************)
(* EditTextBuffer (lsp-text-buffer.cc).  A text is a byte string; a        *)
(* position is a zero-based line and character.                            *)
(***************************************************************************)
\* Largest line and character number of a change's positions.
MaxPos == 2
\* Largest number of ApplyChange() calls on one buffer.
MaxEdits == 1

Str(a, b) == <<a, b>>
\* The texts a buffer is constructed from.
InitialTexts ==
  { <<>>, Str("a", "b"), Str("a", LF), <<"a", LF, "b">>, <<"a", CR, LF>> }
\* The texts of the changes.
ChangeTexts == { <<>>, <<"x">>, <<"x", LF, "y">> }

Position(line, character) == [line |-> line, character |-> character]
Range(start, end) == [start |-> start, end |-> end]
Positions == {Position(l, c) : l \in 0..MaxPos, c \in 0..MaxPos}

\* TextDocumentContentChangeEvent
ChangeEvent(has_range, range, text) ==
  [has_range |-> has_range, range |-> range, text |-> text]
kNoRange == Range(Position(0, 0), Position(0, 0))
ChangeEvents ==
  {ChangeEvent(FALSE, kNoRange, t) : t \in ChangeTexts}
    \cup {ChangeEvent(TRUE, Range(a, b), t) :
            a \in Positions, b \in Positions, t \in ChangeTexts}

\* absl::StrSplit(content, '\n'): the pieces between the newlines, one more
\* than there are newlines.
RECURSIVE StrSplit(_)
StrSplit(content) ==
  LET at == {i \in 1..Len(content) : content[i] = LF}
      first == SetMin(at)
  IN IF at = {} THEN <<content>>
     ELSE <<SubSeq(content, 1, first - 1)>>
            \o StrSplit(SubSeq(content, first + 1, Len(content)))

\* std::string::find_first_of(ch): the zero-based offset or npos.
find_first_of(text, ch) ==
  LET at == {i \in 1..Len(text) : text[i] = ch}
  IN IF at = {} THEN npos ELSE SetMin(at) - 1

\* The last piece keeps the newline appended to it.
GenerateLines_KeepAppended(content) ==
  LET pieces == StrSplit(content)
      result == [i \in 1..Len(pieces) |-> pieces[i] \o <<LF>>]
  IN IF content # <<>> /\ content[Len(content)] = LF
       THEN SubSeq(result, 1, Len(result) - 1)
       ELSE result

\* GenerateLines(content)
GenerateLines(content) ==
  LET pieces == StrSplit(content)
      result == [i \in 1..Len(pieces) |-> pieces[i] \o <<LF>>]
  IN IF content # <<>> /\ content[Len(content)] = LF
       THEN SubSeq(result, 1, Len(result) - 1)
       ELSE [result EXCEPT ![Len(result)] = pieces[Len(result)]]

\* The bytes of the lines in order: what RequestContent() hands out.
RECURSIVE FlatView(_)
FlatView(lines) ==
  IF lines = <<>> THEN <<>> ELSE Head(lines) \o FlatView(Tail(lines))

\* std::accumulate over the lengths of lines [from, to) (zero-based).
RECURSIVE SumLengths(_, _, _)
SumLengths(lines, from, to) ==
  IF from >= to THEN 0
  ELSE Len(lines[from + 1]) + SumLengths(lines, from + 1, to)

\* An EditTextBuffer as a value.
Buffer(lines, document_length, edit_count) ==
  [lines_ |-> lines, document_length_ |-> document_length,
   edit_count_ |-> edit_count]

\* How a call ended: "returned" (with a value), "threw" (an exception left
\* it), "crashed" (the process was stopped), "corrupted" (undefined
\* behaviour went on with unspecified memory).
Outcome(buffer, outcome, returns) ==
  [buffer |-> buffer, outcome |-> outcome, returns |-> returns]

\* What undefined behaviour may turn into.  Reading back() of an empty
\* string stops on the library's assertion or yields some byte, a newline
\* or another; indexing lines_ out of bounds stops the process or goes on
\* with lines and a return value that are not specified.
TextUndefinedOutcomes == {"abort", "newline", "other"}
kJunkLines == << <<"?">> >>
OutOfBounds(buffer, ub) ==
  IF ub = "abort" THEN Outcome(buffer, "crashed", FALSE)
  ELSE Outcome([buffer EXCEPT !.lines_ = kJunkLines], "corrupted",
               ub = "newline")

\* ReplaceDocument(content)
ReplaceDocument(buffer, content) ==
  IF content = <<>>
    THEN [buffer EXCEPT !.document_length_ = Len(content)]
    ELSE [buffer EXCEPT !.document_length_ = Len(content),
                        !.lines_ = GenerateLines(content)]

\* LineEdit(c, str) for str = lines_[line]
LineEdit(buffer, c, line, ub) ==
  LET str == buffer.lines_[line + 1]
      back_is_newline ==
        IF str = <<>> THEN ub = "newline" ELSE str[Len(str)] = LF
      str_end == IF back_is_newline THEN Len(str) - 1 ELSE Len(str)
      end_char == Min(c.range.end.character, str_end)
      before == View(str, 0, c.range.start.character)
      behind == View(str, end_char, Len(str) - end_char)
      edited == before \o c.text \o behind
  IN IF str = <<>> /\ ub = "abort"
       THEN Outcome(buffer, "crashed", FALSE)
     ELSE IF c.range.start.character > str_end
       THEN Outcome(buffer, "returned", FALSE)
     ELSE IF end_char < c.range.start.character
       THEN Outcome(buffer, "returned", FALSE)
     ELSE Outcome([buffer EXCEPT
                     !.lines_[line + 1] = edited,
                     !.document_length_ =
                        buffer.document_length_ - Len(str) + Len(edited)],
                  "returned", TRUE)

\* MultiLineEdit(c)
MultiLineEdit(buffer, c, ub) ==
  LET lines == buffer.lines_
      first == c.range.start.line
      last_line == c.range.end.line
      start_line == lines[first + 1]
      end_line == lines[last_line + 1]
      before == View(start_line, 0, Min(c.range.start.character,
                                        Len(start_line)))
      behind == View(end_line, c.range.end.character,
                     Len(end_line) - c.range.end.character)
      new_content == before \o c.text \o behind
      regenerated_lines == GenerateLines(new_content)
  IN IF first >= Len(lines) \/ last_line >= Len(lines) \/ first > last_line
       \* lines_[...] behind the end, or an iterator range that runs backwards
       THEN OutOfBounds(buffer, ub)
     ELSE IF c.range.end.character > Len(end_line)
       \* end_line.substr(pos) with pos > size() throws std::out_of_range
       THEN Outcome(buffer, "threw", FALSE)
     ELSE Outcome([buffer EXCEPT
                     !.lines_ = SubSeq(lines, 1, first) \o regenerated_lines
                                  \o SubSeq(lines, last_line + 2, Len(lines)),
                     !.document_length_ =
                        buffer.document_length_
                          - SumLengths(lines, first, last_line + 1)
                          + Len(new_content)],
                  "returned", TRUE)

\* ApplyChange(c)
ApplyChange(buffer, c, ub) ==
  LET counted == [buffer EXCEPT !.edit_count_ = buffer.edit_count_ + 1]
      grown == IF c.range.end.line >= Len(counted.lines_)
                 THEN [counted EXCEPT !.lines_ = Append(counted.lines_, <<>>)]
                 ELSE counted
  IN IF ~c.has_range
       THEN Outcome(ReplaceDocument(counted, c.text), "returned", TRUE)
     ELSE IF c.range.start.line = c.range.end.line
             /\ find_first_of(c.text, LF) = npos
       THEN IF c.range.start.line >= Len(grown.lines_)
              THEN OutOfBounds(grown, ub)
              ELSE LineEdit(grown, c, c.range.start.line, ub)
     ELSE MultiLineEdit(grown, c, ub)

VARIABLES
  lines_,                  \* the lines of the document
  document_length_,
  edit_count_,
  \* --- observation of the buffer
  initial_text,            \* the text the buffer was constructed from
  buffer_state,            \* "ok", or how the last call left the process
  applied                  \* the last ApplyChange(): change, outcome, value

buffer_vars ==
  <<lines_, document_length_, edit_count_, initial_text, buffer_state,
    applied>>

kNoChange ==
  [change |-> ChangeEvent(FALSE, kNoRange, <<>>), outcome |-> "none",
   returns |-> FALSE]

\* EditTextBuffer(initial_text)
Construct(text) == ReplaceDocument(Buffer(<<>>, 0, 0), text)

BufferInit ==
  /\ initial_text \in InitialTexts
  /\ \E b \in {Construct(initial_text)} :
       /\ lines_ = b.lines_
       /\ document_length_ = b.document_length_
       /\ edit_count_ = b.edit_count_
  /\ buffer_state = "ok"
  /\ applied = kNoChange

\* One call of ApplyChange(c).  An exception is caught by the dispatcher
\* that called the notification handler; after a crash or with corrupted
\* memory nothing more is modelled.
BufferOpen == buffer_state = "ok" /\ edit_count_ < MaxEdits

Apply(c, ub) ==
  /\ BufferOpen
  /\ \E o \in {ApplyChange(Buffer(lines_, document_length_, edit_count_),
                            c, ub)} :
       /\ lines_' = o.buffer.lines_
       /\ document_length_' = o.buffer.document_length_
       /\ edit_count_' = o.buffer.edit_count_
       /\ buffer_state' =
            IF o.outcome \in {"crashed", "corrupted"} THEN o.outcome ELSE "ok"
       /\ applied' =
            [change |-> c, outcome |-> o.outcome, returns |-> o.returns]
  /\ UNCHANGED initial_text

\* The change c runs into undefined behaviour on this buffer.
ReachesUndefined(buffer, c) == ApplyChange(buffer, c, "abort").outcome = "crashed"

\* The outcome of undefined behaviour is a choice only where the change
\* reaches it.
ApplyAny ==
  /\ BufferOpen
  /\ \E c \in ChangeEvents, ub \in TextUndefinedOutcomes :
       /\ ub # "other" =>
            ReachesUndefined(Buffer(lines_, document_length_, edit_count_), c)
       /\ Apply(c, ub)

(***************************************************************************)
(* BufferCollection (lsp-text-buffer.cc): the open documents by URI, fed   *)
(* with the notifications textDocument/didOpen, didChange and didClose.    *)
(***************************************************************************)
\* A didChange is taken for a document with at most this many edits so far.
MaxEditsBefore == 0

Uris == {"file:///a", "file:///b"}
\* The texts of the didOpen notifications.
OpenTexts == { <<>>, <<"a", LF, "b">> }
\* The changes of the didChange notifications: a whole-document replacement,
\* an insert at the start, a two-line edit that ends behind its end line, an
\* edit that starts behind its line.
CollectionChanges ==
  { ChangeEvent(FALSE, kNoRange, <<"x">>),
    ChangeEvent(TRUE, Range(Position(0, 0), Position(0, 0)), <<"x">>),
    ChangeEvent(TRUE, Range(Position(0, 0), Position(1, 2)), <<>>),
    ChangeEvent(TRUE, Range(Position(0, 2), Position(0, 2)), <<"x">>) }
\* contentChanges: no, one or two changes.
ContentChanges ==
  {<<>>} \cup {<<c>> : c \in CollectionChanges}
         \cup {<<c, d>> : c \in CollectionChanges, d \in CollectionChanges}

\* ApplyChanges(cc): the loop ends early when a call does not return.
RECURSIVE ApplyChanges(_, _, _)
ApplyChanges(buffer, cc, ub) ==
  IF cc = <<>> THEN Outcome(buffer, "returned", TRUE)
  ELSE LET o == ApplyChange(buffer, Head(cc), ub)
       IN IF o.outcome = "returned"
            THEN ApplyChanges(o.buffer, Tail(cc), ub)
            ELSE o

\* The document is constructed anew for a URI that is already open.
didOpenEvent_Replace(buffers, uri, text) ==
  [k \in DOMAIN buffers \cup {uri} |->
     IF k = uri THEN Construct(text) ELSE buffers[k]]

\* didOpenEvent(o): buffers_ afterwards.
didOpenEvent(buffers, uri, text) ==
  IF uri \in DOMAIN buffers THEN buffers
  ELSE [k \in DOMAIN buffers \cup {uri} |->
          IF k = uri THEN Construct(text) ELSE buffers[k]]

\* A closed document stays in the map.
didCloseEvent_Keep(buffers, uri) == buffers

\* didCloseEvent(o): buffers_ afterwards.
didCloseEvent(buffers, uri) ==
  [k \in DOMAIN buffers \ {uri} |-> buffers[k]]

\* didChangeEvent(o): buffers_ afterwards and how the call ended.
didChangeEvent(buffers, uri, cc, ub) ==
  IF uri \notin DOMAIN buffers
    THEN [buffers |-> buffers, outcome |-> "returned"]
  ELSE LET o == ApplyChanges(buffers[uri], cc, ub)
       IN [buffers |-> [buffers EXCEPT ![uri] = o.buffer],
           outcome |-> o.outcome]

VARIABLES
  buffers_,                \* uri -> EditTextBuffer
  \* --- observation of the collection
  collection_state,        \* "ok", or how the last call left the process
  uri_history,             \* per URI: "unopened", "open", "closed" (after
                           \* a didClose), "reopened" (open again)
  notified                 \* the last notification: kind, uri, text, number
                           \* of changes, how the handler ended

collection_vars == <<buffers_, collection_state, uri_history, notified>>

Notified(kind, uri, text, changes, outcome) ==
  [kind |-> kind, uri |-> uri, text |-> text, changes |-> changes,
   outcome |-> outcome]
kNotNotified == Notified("none", "", <<>>, 0, "returned")

CollectionInit ==
  /\ buffers_ = [k \in {} |-> Construct(<<>>)]
  /\ collection_state = "ok"
  /\ uri_history = [uri \in Uris |-> "unopened"]
  /\ notified = kNotNotified

\* textDocument/didOpen arrives.
DidOpen ==
  /\ collection_state = "ok"
  /\ \E uri \in Uris, text \in OpenTexts :
       /\ buffers_' = didOpenEvent(buffers_, uri, text)
       /\ uri_history' =
            [uri_history EXCEPT ![uri] =
               IF @ = "unopened" THEN "open"
               ELSE IF @ = "closed" THEN "reopened" ELSE @]
       /\ notified' = Notified("didOpen", uri, text, 0, "returned")
  /\ UNCHANGED collection_state

\* textDocument/didClose arrives.
DidClose ==
  /\ collection_state = "ok"
  /\ \E uri \in Uris :
       /\ buffers_' = didCloseEvent(buffers_, uri)
       /\ uri_history' =
            [uri_history EXCEPT ![uri] = IF @ = "unopened" THEN @ ELSE "closed"]
       /\ notified' = Notified("didClose", uri, <<>>, 0, "returned")
  /\ UNCHANGED collection_state

\* textDocument/didChange arrives.  An exception leaves the handler and is
\* caught by the dispatcher; after a crash or with corrupted memory nothing
\* more is modelled.
DidChange ==
  /\ collection_state = "ok"
  /\ \E uri \in Uris, cc \in ContentChanges, ub \in TextUndefinedOutcomes :
       /\ uri \in DOMAIN buffers_ =>
            /\ buffers_[uri].edit_count_ <= MaxEditsBefore
            /\ ub # "other" =>
                 ApplyChanges(buffers_[uri], cc, "abort").outcome = "crashed"
       /\ uri \notin DOMAIN buffers_ => ub = "other"
       /\ \E o \in {didChangeEvent(buffers_, uri, cc, ub)} :
            /\ buffers_' = o.buffers
            /\ collection_state' =
                 IF o.outcome \in {"crashed", "corrupted"} THEN o.outcome
                 ELSE "ok"
            /\ notified' = Notified("didChange", uri, <<>>, Len(cc), o.outcome)
  /\ UNCHANGED uri_history

(***************************************************************************)
(* Specifications: the splitter fed from a stream, the dispatcher fed with *)
(* message bodies, and the two wired together as in main.cc.               *)
(***************************************************************************)
vars ==
  <<splitter_vars, dispatcher_vars, server_vars, mux_vars, buffer_vars,
    collection_vars>>

\* The splitter at rest, for the runs of the other parts alone.
SplitterIdle ==
  /\ frames = <<>>
  /\ read_pos = 0
  /\ read_buffer_ = <<>>
  /\ pending_off = 0
  /\ pending_size = 0
  /\ message_processor_ = FALSE
  /\ stats_largest_body_ = 0
  /\ stats_total_bytes_read_ = 0
  /\ status = "None"
  /\ read_result = "none"
  /\ emitted = <<>>
  /\ split_seen = FALSE

\* No server shell around the parts.
ServerIdle == trace = <<>> /\ shutdown_requested = FALSE /\ reader = "none"

\* No document is open.
BufferIdle ==
  /\ lines_ = <<>>
  /\ document_length_ = 0
  /\ edit_count_ = 0
  /\ initial_text = <<>>
  /\ buffer_state = "ok"
  /\ applied = kNoChange

SplitterNext ==
  \/ SetMessageProcessor
       /\ UNCHANGED <<dispatcher_vars, server_vars, mux_vars, buffer_vars,
                       collection_vars>>
  \/ PullFromNoProcessor
       /\ UNCHANGED <<dispatcher_vars, server_vars, mux_vars, buffer_vars,
                       collection_vars>>
  \/ PullFrom
       /\ UNCHANGED <<dispatcher_vars, server_vars, mux_vars, buffer_vars,
                       collection_vars>>

\* A splitter on a fresh stream; the dispatcher is constructed but not fed.
SplitterStart ==
  /\ SplitterInit /\ DispatcherInit /\ ServerIdle /\ MuxInit /\ BufferIdle
  /\ CollectionInit

SplitterSpec == SplitterStart /\ [][SplitterNext]_vars

\* The splitter on a stream that may hold frames outside the wire format.
UncheckedInit ==
  /\ frames \in UncheckedStreams
  /\ read_pos = 0
  /\ read_buffer_ = <<>>
  /\ pending_off = 0
  /\ pending_size = 0
  /\ message_processor_ = FALSE
  /\ stats_largest_body_ = 0
  /\ stats_total_bytes_read_ = 0
  /\ status = "None"
  /\ read_result = "none"
  /\ emitted = <<>>
  /\ split_seen = FALSE

UncheckedStart ==
  /\ UncheckedInit /\ DispatcherInit /\ ServerIdle /\ MuxInit /\ BufferIdle
  /\ CollectionInit

UncheckedSpec == UncheckedStart /\ [][SplitterNext]_vars

DispatcherNext ==
  \/ RegisterRequestHandler
       /\ UNCHANGED <<splitter_vars, server_vars, mux_vars, buffer_vars,
                       collection_vars>>
  \/ RegisterNotificationHandler
       /\ UNCHANGED <<splitter_vars, server_vars, mux_vars, buffer_vars,
                       collection_vars>>
  \/ DispatchAny
       /\ UNCHANGED <<splitter_vars, server_vars, mux_vars, buffer_vars,
                       collection_vars>>

DispatcherStart ==
  /\ SplitterIdle /\ DispatcherInit /\ ServerIdle /\ MuxInit /\ BufferIdle
  /\ CollectionInit

DispatcherSpec == DispatcherStart /\ [][DispatcherNext]_vars

ServerNext ==
  ServerPull /\ UNCHANGED <<mux_vars, buffer_vars, collection_vars>>

ServerStart == ServerInit /\ MuxInit /\ BufferIdle /\ CollectionInit

ServerSpec == ServerStart /\ [][ServerNext]_vars

MuxNext ==
  \/ RegisterReadable
       /\ UNCHANGED <<splitter_vars, dispatcher_vars, server_vars, buffer_vars,
                       collection_vars>>
  \/ RegisterIdle
       /\ UNCHANGED <<splitter_vars, dispatcher_vars, server_vars, buffer_vars,
                       collection_vars>>
  \/ Loop
       /\ UNCHANGED <<splitter_vars, dispatcher_vars, server_vars, buffer_vars,
                       collection_vars>>
  \/ LoopCycle
       /\ UNCHANGED <<splitter_vars, dispatcher_vars, server_vars, buffer_vars,
                       collection_vars>>

MuxStart ==
  /\ SplitterIdle /\ DispatcherInit /\ ServerIdle /\ MuxInit /\ BufferIdle
  /\ CollectionInit

MuxSpec == MuxStart /\ [][MuxNext]_vars

BufferNext ==
  ApplyAny /\ UNCHANGED <<splitter_vars, dispatcher_vars, server_vars, mux_vars,
                         collection_vars>>

BufferStart ==
  /\ SplitterIdle /\ DispatcherInit /\ ServerIdle /\ MuxInit /\ BufferInit
  /\ CollectionInit

BufferSpec == BufferStart /\ [][BufferNext]_vars

CollectionNext ==
  \/ DidOpen
       /\ UNCHANGED <<splitter_vars, dispatcher_vars, server_vars, mux_vars,
                       buffer_vars>>
  \/ DidClose
       /\ UNCHANGED <<splitter_vars, dispatcher_vars, server_vars, mux_vars,
                       buffer_vars>>
  \/ DidChange
       /\ UNCHANGED <<splitter_vars, dispatcher_vars, server_vars, mux_vars,
                       buffer_vars>>

CollectionStart ==
  /\ SplitterIdle /\ DispatcherInit /\ ServerIdle /\ MuxInit /\ BufferIdle
  /\ CollectionInit

CollectionSpec == CollectionStart /\ [][CollectionNext]_vars

ShellNext ==
  \/ Loop
       /\ UNCHANGED <<splitter_vars, dispatcher_vars, server_vars, buffer_vars,
                       collection_vars>>
  \/ ShellCycle /\ UNCHANGED <<buffer_vars, collection_vars>>

ShellStart == ShellInit /\ BufferIdle /\ CollectionInit

ShellSpec == ShellStart /\ [][ShellNext]_vars

(***************************************************************************)
(* What the stream contains, for stating the properties of the splitter.   *)
(***************************************************************************)
Message(f) == [header |-> f.header, body |-> f.body]
\* The first i frames of the stream as (header, body) pairs.
Expected(i) == [j \in 1..i |-> Message(frames[j])]
\* Number of frames whose last byte the read function has given out.
CompleteFrames ==
  Cardinality({i \in 1..Len(frames) : FrameEnd(frames, i) <= read_pos})
AllOfKind(kinds) == \A j \in 1..Len(frames) : frames[j].kind \in kinds
PlainUpTo(i) == \A j \in 1..i : frames[j].kind = "plain"
\* The stream position p lies inside frame i: after its first, before its
\* last byte.
Inside(p, i) == FrameEnd(frames, i - 1) < p /\ p < FrameEnd(frames, i)
\* Frame i is the first frame that is not plain, and its header block has no
\* usable Content-Length.
FirstBad(i) ==
  /\ frames[i].kind \in {"no_length", "garbled"}
  /\ PlainUpTo(i - 1)

C2_PullStep ==
  /\ read_result' = "data"
  /\ read_pos' > read_pos
C2_PartialFrameRetained ==
  [][C2_PullStep =>
       \A i \in 1..Len(frames) :
         PlainUpTo(i) =>
           /\ Inside(read_pos', i) =>
                /\ status' = "Ok"
                /\ emitted' = Expected(i - 1)
                /\ PendingData' = View(Content, FrameEnd(frames, i - 1),
                                       read_pos' - FrameEnd(frames, i - 1))
           /\ (Inside(read_pos, i) /\ read_pos' >= FrameEnd(frames, i)) =>
                /\ emitted = Expected(i - 1)
                /\ Len(emitted') >= i
                /\ emitted' = Expected(Len(emitted'))]_vars

C2_Witness ==
  /\ Len(frames) = 2
  /\ PlainUpTo(2)
  /\ split_seen
  /\ status = "Ok"
  /\ emitted = Expected(1)
  /\ Inside(read_pos, 2)
  /\ pending_size > Len(frames[2].header)

\* C3: end of stream (the read function returns 0) while leftover bytes of an
\* incomplete frame are held gives a data-loss status.
C3_DataLossOnTruncation ==
  (read_result = "eof" /\ pending_size > 0) => status = "DataLoss"

\* C4: a pull whose read function returns 0 while no leftover is held returns
\* an unavailable status, calls the message processor not at all and leaves
\* the byte counters and the (empty) leftover as they were.
C4_EofStep ==
  /\ message_processor_
  /\ SessionOpen
  /\ read_result' = "eof"
  /\ pending_size = 0
C4_CleanEofUnavailable ==
  [][C4_EofStep =>
       /\ status' = "Unavailable"
       /\ emitted' = emitted
       /\ stats_total_bytes_read_' = stats_total_bytes_read_
       /\ stats_largest_body_' = stats_largest_body_
       /\ pending_size' = 0
       /\ PendingData' = <<>>]_vars

C4_Witness ==
  /\ read_result = "eof"
  /\ status = "Unavailable"
  /\ pending_size = 0
  /\ Len(emitted) = 2
  /\ stats_total_bytes_read_ = Len(Content)

\* C5: the pull that completes the header block of the first frame whose
\* header has no Content-Length field, or a Content-Length value that is not
\* a number, returns an invalid-argument status; it has called the message
\* processor for the frames before that one only, not for that frame and not
\* for the bytes behind it.
C5_InvalidHeaderRejected ==
  [][\A i \in 1..Len(frames) :
       (/\ FirstBad(i)
        /\ read_result' = "data"
        /\ read_pos < HeaderEnd(frames, i)
        /\ read_pos' >= HeaderEnd(frames, i))
       => /\ status' = "InvalidArgument"
          /\ emitted' = Expected(i - 1)]_vars

C5_Witness ==
  /\ Len(frames) = 2
  /\ FirstBad(2)
  /\ status = "InvalidArgument"
  /\ read_pos > HeaderEnd(frames, 2)
  /\ emitted = Expected(1)

\* C6: frames whose header block has another header line before or after
\* the Content-Length line are emitted like plain frames, with the body of
\* the declared length.
C6_OtherHeaderLinesIgnored ==
  AllOfKind({"plain", "extra_before", "extra_after"})
    => emitted = Expected(CompleteFrames)


(***************************************************************************)
(* What the last dispatched message was, for stating the properties of the *)
(* dispatcher.                                                             *)
(***************************************************************************)
\* The body parsed to a JSON object.
ParsedObject(body) == body.syntax = "ok" /\ body.json.type = "object"
HasId(body) == ParsedObject(body) /\ HasMember(body.json, "id")
HasMethod(body) == ParsedObject(body) /\ HasMember(body.json, "method")
HasParams(body) == ParsedObject(body) /\ HasMember(body.json, "params")
\* The body has a `method` member that is a string.
NamesMethod(body) ==
  HasMethod(body) /\ body.json.members["method"].type = "string"
MethodOf(body) == body.json.members["method"].val
\* The JSON object of the i-th chunk written in the last dispatch.
Reply(i) == last.writes[i].json

\* C7: a message that parses to an object with an `id` member causes exactly
\* one call of the write function in its DispatchMessage() call, whatever
\* its `method` member is.
C7_RequestGetsOneReply ==
  HasId(last.body) => Len(last.writes) = 1

\* C8: dispatching a message with a `method` member and no `id` member never
\* calls the write function.  If the method has a notification handler that
\* handler (and no other) is called, once, with the message's params; if it
\* has none no handler is called; a handler that raises is counted in
\* exception_count_ and the dispatch returns normally.  (A message without
\* params makes the call at most once: reading the missing member is
\* undefined.)
C8_LastWasNotification(body) == HasMethod(body) /\ ~HasId(body)
C8_NotificationNeverAnswered ==
  [][(dispatched' # dispatched /\ C8_LastWasNotification(last'.body)) =>
       LET body == last'.body
           registered == NamesMethod(body)
                           /\ MethodOf(body) \in DOMAIN notifications_
       IN /\ last'.writes = <<>>
          /\ Len(last'.calls) <= 1
          /\ ~registered => last'.calls = <<>>
          /\ (registered /\ HasParams(body)) =>
               /\ last'.outcome = "returned"
               /\ last'.calls = <<Call("notification", MethodOf(body),
                                       body.json.members["params"])>>
               /\ exception_count_' = exception_count_ +
                    (IF notifications_[MethodOf(body)] = "throw" THEN 1 ELSE 0)
     ]_vars

C8_Witness ==
  /\ C8_LastWasNotification(last.body)
  /\ NamesMethod(last.body)
  /\ MethodOf(last.body) \in DOMAIN notifications_
  /\ notifications_[MethodOf(last.body)] = "throw"
  /\ MethodOf(last.body) \in DOMAIN handlers_
  /\ Len(last.calls) = 1
  /\ last.writes = <<>>
  /\ exception_count_ = 1

\* C9: a message with an `id`, params and a method that has a request
\* handler which returns calls that handler once with the params, and writes
\* one reply: its `id` is the request's id, its `result` is what the handler
\* returned, and it has no `error` member.
C9_Applies ==
  /\ HasId(last.body)
  /\ NamesMethod(last.body)
  /\ HasParams(last.body)
  /\ MethodOf(last.body) \in DOMAIN handlers_
  /\ handlers_[MethodOf(last.body)] # "throw"
C10_Applies ==
  /\ HasId(last.body)
  /\ NamesMethod(last.body)
  /\ MethodOf(last.body) \notin DOMAIN handlers_
C10_UnknownRequestMethod ==
  C10_Applies =>
    /\ last.outcome = "returned"
    /\ Len(last.writes) = 1
    /\ DOMAIN Reply(1) = {"jsonrpc", "id", "error"}
    /\ Reply(1)["error"].code = -32601
    /\ Reply(1)["id"] = last.body.json.members["id"]
    /\ last.calls = <<>>

C10_Witness ==
  /\ C10_Applies
  /\ MethodOf(last.body) \in DOMAIN notifications_
  /\ Len(last.writes) = 1
  /\ Reply(1)["error"].code = kMethodNotFound
  /\ last.calls = <<>>

\* C11: a request (a message with an `id`) whose request handler was called
\* and raised gets exactly one reply in that dispatch: it has error.code
\* -32603, the request's id and no `result` member; the dispatch returns
\* normally and the handler was called once.
C11_Applies ==
  /\ HasId(last.body)
  /\ NamesMethod(last.body)
  /\ MethodOf(last.body) \in DOMAIN handlers_
  /\ handlers_[MethodOf(last.body)] = "throw"
  /\ last.calls # <<>>
C11_RaisingHandlerInternalError ==
  C11_Applies =>
    /\ last.outcome = "returned"
    /\ Len(last.calls) = 1
    /\ last.calls[1].map = "request"
    /\ Len(last.writes) = 1
    /\ DOMAIN Reply(1) = {"jsonrpc", "id", "error"}
    /\ Reply(1)["error"].code = -32603
    /\ Reply(1)["id"] = last.body.json.members["id"]

C11_Witness ==
  /\ C11_Applies
  /\ HasParams(last.body)
  /\ last.body.json.members["id"] = JNum("7")
  /\ Len(last.writes) = 1
  /\ Reply(1)["error"].code = kInternalError
  /\ exception_count_ >= 1

\* C12: a body that parses (to an object or to another JSON value) and has
\* no `method` member gets exactly one reply, with error.code -32601 and no
\* `result`; the reply carries the message's id if it has one and no id
\* otherwise; no handler is called, whatever handlers are registered.
C12_Applies == last.body.syntax = "ok" /\ ~HasMethod(last.body)
C12_MissingMethodReply ==
  C12_Applies =>
    /\ last.outcome = "returned"
    /\ last.calls = <<>>
    /\ Len(last.writes) = 1
    /\ DOMAIN Reply(1) =
         {"jsonrpc", "error"} \cup (IF HasId(last.body) THEN {"id"} ELSE {})
    /\ Reply(1)["error"].code = -32601
    /\ HasId(last.body) => Reply(1)["id"] = last.body.json.members["id"]

C12_Witness ==
  /\ C12_Applies
  /\ ParsedObject(last.body)
  /\ ~HasId(last.body)
  /\ HasParams(last.body)
  /\ "foo" \in DOMAIN handlers_
  /\ "foo" \in DOMAIN notifications_
  /\ Len(last.writes) = 1
  /\ Reply(1)["error"].code = kMethodNotFound
  /\ last.calls = <<>>

\* C13: dispatching a body that is not JSON writes exactly one reply, with
\* error.code -32700 and neither `id` nor `result`, calls no handler, counts
\* one exception, returns normally and leaves the registered handlers as
\* they were; a request for a registered, returning handler dispatched
\* right after it gets its result reply.
C13_Unparseable(body) == body.syntax \notin {"ok", "none"}
C13_ParseErrorReply ==
  [][(dispatched' # dispatched) =>
       /\ C13_Unparseable(last'.body) =>
            /\ last'.outcome = "returned"
            /\ last'.calls = <<>>
            /\ Len(last'.writes) = 1
            /\ DOMAIN last'.writes[1].json = {"jsonrpc", "error"}
            /\ last'.writes[1].json["error"].code = -32700
            /\ exception_count_' = exception_count_ + 1
            /\ handlers_' = handlers_
            /\ notifications_' = notifications_
       /\ (/\ C13_Unparseable(last.body)
           /\ HasId(last'.body)
           /\ NamesMethod(last'.body)
           /\ HasParams(last'.body)
           /\ MethodOf(last'.body) \in DOMAIN handlers_
           /\ handlers_[MethodOf(last'.body)] # "throw") =>
            /\ last'.outcome = "returned"
            /\ Len(last'.calls) = 1
            /\ Len(last'.writes) = 1
            /\ DOMAIN last'.writes[1].json = {"jsonrpc", "id", "result"}
     ]_vars

\* C14: every chunk written in a dispatch, on whatever path, is an object
\* whose `jsonrpc` member is "2.0" and that has exactly one of the members
\* `result` and `error`; if it has an `id` member the dispatched message has
\* one too and the two are equal (a null id included).
C14_WellFormed(reply, body) ==
  /\ "jsonrpc" \in DOMAIN reply
  /\ reply["jsonrpc"] = JStr("2.0")
  /\ ("result" \in DOMAIN reply) # ("error" \in DOMAIN reply)
  /\ "id" \in DOMAIN reply =>
       /\ HasId(body)
       /\ reply["id"] = body.json.members["id"]
C14_RepliesWellFormed ==
  \A i \in 1..Len(last.writes) : C14_WellFormed(Reply(i), last.body)

C14_Witness ==
  /\ HasId(last.body)
  /\ last.body.json.members["id"] = JNull
  /\ Len(last.writes) = 1
  /\ DOMAIN Reply(1) = {"jsonrpc", "id", "error"}
  /\ Reply(1)["id"] = JNull
  /\ C14_WellFormed(Reply(1), last.body)

\* C15: in the server, the bodies are dispatched in the order their frames
\* are completed by the bytes read: the k-th dispatch is that of frame k and
\* all frames delivered in full are dispatched.  Every event of a dispatch
\* (its handler call, its reply) comes before every event of a later one,
\* and a request has its one reply written there: so the reply to a request
\* is written before a handler of any later message is called, also when
\* they arrive in one chunk.
C15_IsRequest(text) == HasId(Denoted(text))
C15_DispatchInStreamOrder ==
  /\ emitted = Expected(CompleteFrames)
  /\ dispatched = CompleteFrames
  /\ \A p \in 1..Len(trace) :
       /\ trace[p].seq \in 1..dispatched
       /\ trace[p].text = frames[trace[p].seq].body
       /\ \A q \in (p + 1)..Len(trace) : trace[p].seq <= trace[q].seq
  /\ \A k \in 1..dispatched :
       LET first == SetMin({p \in 1..Len(trace) : trace[p].seq = k})
           writes == {p \in 1..Len(trace) :
                       trace[p].seq = k /\ trace[p].what = "write"}
       IN /\ \E p \in 1..Len(trace) : trace[p].seq = k
          /\ trace[first].what = "dispatch"
          /\ C15_IsRequest(frames[k].body) => Cardinality(writes) = 1

C15_Witness ==
  /\ Len(frames) = 2
  /\ frames[1].body = kRequestText
  /\ frames[2].body = kNotificationText
  /\ stats_total_bytes_read_ = Len(Content)
  /\ ~split_seen
  /\ dispatched = 2
  /\ [i \in 1..Len(trace) |-> <<trace[i].seq, trace[i].what>>] =
       << <<1, "dispatch">>, <<1, "call">>, <<1, "write">>,
          <<2, "dispatch">>, <<2, "call">> >>

(***************************************************************************)
(* What the last cycle of the multiplexer did, for stating its properties. *)
(***************************************************************************)
CalledKinds == {cycle.called[i].kind : i \in 1..Len(cycle.called)}
\* The step is a SingleCycle() of the running loop.
CycleStep == loop = "running" /\ cycles' # cycles

\* C16: a cycle that called an idle handler had its wait time out with no
\* descriptor ready and called no read handler; a cycle in which a
\* descriptor was ready called read handlers only.  The calls of one cycle
\* are thus all of one kind, and a read handler (inside which a message is
\* dispatched) has returned before the next cycle can call an idle handler.
C16_IdleOnlyOnTimeout ==
  /\ "idle" \in CalledKinds =>
       cycle.kind = "timeout" /\ cycle.ready = {} /\ CalledKinds = {"idle"}
  /\ "read" \in CalledKinds => cycle.kind = "ready"
  /\ cycle.kind = "ready" => cycle.ready # {} /\ CalledKinds = {"read"}

C16_Witness ==
  /\ cycle.kind = "timeout"
  /\ Len(cycle.called) = 2
  /\ DOMAIN read_handlers_ = Fds
  /\ cycles >= 2

\* C17: a SingleCycle() of the loop ends the loop exactly if no readable
\* descriptor is registered when it starts or if its wait fails.  With no
\* descriptor registered it returns without waiting and without calling a
\* handler, whether or not idle handlers are registered; the cycle in which
\* the last read handler returns false itself goes on, and the next one
\* ends the loop.
C17_LoopRunsWhileReadable ==
  [][CycleStep =>
       /\ (loop' = "returned") <=>
            (DOMAIN read_handlers_ = {} \/ cycle'.kind = "failed")
       /\ DOMAIN read_handlers_ = {} =>
            /\ cycle'.kind = "no_fds"
            /\ cycle'.called = <<>>
            /\ idle_handlers_' = idle_handlers_
       /\ (DOMAIN read_handlers_ # {} /\ cycle'.kind # "failed") =>
            /\ loop' = "running"
            /\ cycle'.kind \in {"ready", "timeout"}]_vars

C17_Witness ==
  /\ loop = "returned"
  /\ cycle.kind = "no_fds"
  /\ idle_handlers_ # <<>>
  /\ run_on_readable.returns
  /\ cycles >= 2

\* C18: RunOnReadable(fd, handler) for a registered fd returns false and
\* leaves the map of read handlers as it was; for an fd not registered it
\* returns true and adds exactly that entry.  The handler a cycle calls for
\* an fd is the one the map held for it when the cycle started.
C18_RunOnReadableStep ==
  /\ loop = "setup"
  /\ loop' = "setup"
  /\ run_on_readable' # run_on_readable
C18_DuplicateRejected ==
  [][/\ C18_RunOnReadableStep =>
          LET r == run_on_readable'
          IN IF r.fd \in DOMAIN read_handlers_
               THEN /\ r.returns = FALSE
                    /\ read_handlers_' = read_handlers_
               ELSE /\ r.returns = TRUE
                    /\ DOMAIN read_handlers_' = DOMAIN read_handlers_ \cup {r.fd}
                    /\ read_handlers_'[r.fd] = r.handler
                    /\ \A k \in DOMAIN read_handlers_ :
                         read_handlers_'[k] = read_handlers_[k]
     /\ CycleStep =>
          \A i \in 1..Len(cycle'.called) :
            cycle'.called[i].kind = "read" =>
              /\ cycle'.called[i].fd \in DOMAIN read_handlers_
              /\ cycle'.called[i].handler =
                   read_handlers_[cycle'.called[i].fd]]_vars

C18_Witness ==
  /\ run_on_readable.returns = FALSE
  /\ run_on_readable.fd \in DOMAIN read_handlers_
  /\ run_on_readable.handler = "drop"
  /\ read_handlers_[run_on_readable.fd] = "keep"
  /\ cycle.kind = "ready"
  /\ cycle.called = <<Called("read", run_on_readable.fd, "keep")>>

\* The descriptors of S in ascending order.
RECURSIVE Ascending(_)
Ascending(S) ==
  IF S = {} THEN <<>> ELSE <<SetMin(S)>> \o Ascending(S \ {SetMin(S)})
\* Number of handlers of the list that register another one when called.
Spawning(list) == Cardinality({i \in 1..Len(list) : list[i] = "spawn"})

CalledFds(called) ==
  {called[i].fd : i \in {k \in 1..Len(called) : called[k].kind = "read"}}
\* The handlers of the list that return true, in order.
Staying(list) == SelectSeq(list, Returns)

\* C32: after a cycle, a read handler is gone exactly if the cycle called
\* it and it returned false, every other one is registered as before, and
\* no descriptor was called twice; of the idle handlers those that a
\* timeout cycle called and that returned false are gone and the others are
\* left in their order.  A handler that is gone is in no later cycle's
\* calls, as a cycle calls registered handlers only.
C32_FalseDeregisters ==
  [][CycleStep =>
       /\ \A fd \in DOMAIN read_handlers_ :
            /\ fd \in DOMAIN read_handlers_' <=>
                 ~(fd \in CalledFds(cycle'.called)
                     /\ ~Returns(read_handlers_[fd]))
            /\ fd \in DOMAIN read_handlers_' =>
                 read_handlers_'[fd] = read_handlers_[fd]
       /\ Cardinality(CalledFds(cycle'.called)) = Len(cycle'.called)
            \/ cycle'.kind # "ready"
       /\ CalledFds(cycle'.called) \subseteq DOMAIN read_handlers_
       /\ idle_handlers_' =
            IF cycle'.kind = "timeout" THEN Staying(idle_handlers_)
            ELSE idle_handlers_]_vars

\* A timeout cycle of a running loop called an idle handler that left and
\* one that stays.
C32_Witness ==
  /\ cycle.kind = "timeout"
  /\ Len(cycle.called) = 2
  /\ cycle.called[1].handler = "drop"
  /\ idle_handlers_ = <<"keep">>
  /\ cycles >= 2
  /\ run_on_readable.returns
  /\ DOMAIN read_handlers_ # Fds

\* C33: a SingleCycle() makes exactly one call of a handler, of a ready
\* descriptor's or of an idle one, or else it returns false.
C33_OneCallPerCycle ==
  [][CycleStep => (Len(cycle'.called) = 1 \/ ~cycle'.returns)]_vars

\* C34: a cycle calls no handler that was registered during that cycle, a
\* read handler or an idle one (its calls are calls of handlers registered
\* when it started, each at most once); what a handler registered is
\* registered when the cycle ends, for the next cycle to call.
C34_RegisteredForNextCycle ==
  [][CycleStep =>
       /\ CalledFds(cycle'.called) \subseteq DOMAIN read_handlers_
       /\ cycle'.kind = "ready" =>
            /\ Len(cycle'.called) = Cardinality(CalledFds(cycle'.called))
            /\ \A fd \in CalledFds(cycle'.called) :
                 read_handlers_[fd] = "spawn" =>
                   SpawnedFd(fd) \in DOMAIN read_handlers_'
                     \/ SpawnedFd(fd) \in CalledFds(cycle'.called)
       /\ cycle'.kind = "timeout" =>
            /\ Len(cycle'.called) <= Len(idle_handlers_)
            /\ Len(idle_handlers_')
                 = Len(Staying(idle_handlers_)) + Spawning(idle_handlers_)]_vars

(***************************************************************************)
(* The document of the buffer, for stating its properties.                 *)
(***************************************************************************)
\* What RequestContent() delivers.
DocumentContent == FlatView(lines_)

\* C19: while the buffer works (no call has stopped the process or run
\* into undefined behaviour), document_length_ is the number of bytes of
\* the content, after every ApplyChange() whatever it returned.
C19_LengthMatchesContent ==
  buffer_state = "ok" => document_length_ = Len(DocumentContent)

\* C20: after an ApplyChange() with a change without range the content is
\* the text of the change, whatever the text and the content before, and
\* the call has returned true.
C20_WholeDocumentReplaced ==
  (applied.outcome = "returned" /\ ~applied.change.has_range) =>
    /\ applied.returns = TRUE
    /\ DocumentContent = applied.change.text

\* C21: a buffer constructed from a text T, before any change, hands out
\* exactly T as its content (carriage returns and a missing or present
\* final newline included), and document_length_ is the length of T.
C21_ConstructionRoundTrip ==
  edit_count_ = 0 =>
    /\ DocumentContent = initial_text
    /\ document_length_ = Len(initial_text)

C21_Witness ==
  /\ edit_count_ = 0
  /\ CR \in {initial_text[i] : i \in 1..Len(initial_text)}
  /\ DocumentContent = initial_text
  /\ Len(lines_) = 1

(***************************************************************************)
(* What a change asks for, for stating the properties of the text buffer.  *)
(***************************************************************************)
\* start <= end in lexicographic order.
WellFormed(range) ==
  \/ range.start.line < range.end.line
  \/ /\ range.start.line = range.end.line
     /\ range.start.character <= range.end.character
\* The length of a line without its trailing newline.
EffectiveLength(str) ==
  IF str # <<>> /\ str[Len(str)] = LF THEN Len(str) - 1 ELSE Len(str)
\* Line n (zero-based) of the document; the empty line one past the last.
LineOrEmpty(lines, n) == IF n < Len(lines) THEN lines[n + 1] ELSE <<>>
\* The change asks for a single-line edit.
SingleLine(c) ==
  /\ c.has_range
  /\ WellFormed(c.range)
  /\ c.range.start.line = c.range.end.line
  /\ find_first_of(c.text, LF) = npos
\* The line with the characters from `from` up to `to` replaced by text.
Replaced(str, from, to, text) ==
  SubSeq(str, 1, from) \o text \o SubSeq(str, to + 1, Len(str))

\* C22: a single-line edit on a line of the document (or on the empty line
\* one past the last), with start.character not behind the line's length
\* without its newline, returns true, replaces the characters from
\* start.character to the clamped end.character by the text, leaves every
\* other line alone and changes document_length_ by the length delta.
C22_SingleLineEdit ==
  [][LET c == applied'.change
         n == c.range.start.line
         str == LineOrEmpty(lines_, n)
         to == Min(c.range.end.character, EffectiveLength(str))
         edited == Replaced(str, c.range.start.character, to, c.text)
     IN (/\ SingleLine(c)
         /\ n <= Len(lines_)
         /\ c.range.start.character <= EffectiveLength(str))
        => /\ applied'.outcome = "returned"
           /\ applied'.returns = TRUE
           /\ lines_' = IF n < Len(lines_)
                          THEN [lines_ EXCEPT ![n + 1] = edited]
                          ELSE Append(lines_, edited)
           /\ document_length_' =
                document_length_ + Len(c.text)
                  - (to - c.range.start.character)]_vars

\* C23: a single-line edit whose start.character lies behind the line's
\* length without its newline returns false and leaves the lines (content
\* and line count) and document_length_ as they were, on an empty document
\* too; edit_count_ advances by one.
C23_SingleLineEditFails ==
  [][LET c == applied'.change
         n == c.range.start.line
     IN (/\ SingleLine(c)
         /\ n <= Len(lines_)
         /\ c.range.start.character > EffectiveLength(LineOrEmpty(lines_, n)))
        => /\ applied'.outcome = "returned"
           /\ applied'.returns = FALSE
           /\ lines_' = lines_
           /\ document_length_' = document_length_
           /\ edit_count_' = edit_count_ + 1]_vars

\* The segmentation rule: a text is cut behind each newline; the empty
\* text has no segment.
RECURSIVE Segmentation(_)
Segmentation(content) ==
  LET i == find_first_of(content, LF)
  IN IF content = <<>> THEN <<>>
     ELSE IF i = npos THEN <<content>>
     ELSE <<SubSeq(content, 1, i + 1)>>
            \o Segmentation(SubSeq(content, i + 2, Len(content)))
\* The change asks for a multi-line edit with both positions inside the
\* document: on lines it has, not behind their last character.
MultiLineInRange(lines, c) ==
  /\ c.has_range
  /\ WellFormed(c.range)
  /\ ~SingleLine(c)
  /\ c.range.end.line < Len(lines)
  /\ c.range.start.character
       <= EffectiveLength(lines[c.range.start.line + 1])
  /\ c.range.end.character <= EffectiveLength(lines[c.range.end.line + 1])
\* before + text + after of a multi-line edit.
Assembled(lines, c) ==
  LET end_line == lines[c.range.end.line + 1]
  IN SubSeq(lines[c.range.start.line + 1], 1, c.range.start.character)
       \o c.text \o SubSeq(end_line, c.range.end.character + 1, Len(end_line))

\* C24: a multi-line edit with in-range positions returns true and puts the
\* segmentation of before + text + after in place of the lines start.line
\* to end.line: the lines before and behind them stay, in order, the line
\* count changes by the number of segments minus the number of lines
\* replaced, and document_length_ by the bytes put in minus those removed.
C24_MultiLineEdit ==
  [][LET c == applied'.change
         first == c.range.start.line
         last_line == c.range.end.line
         new_content == Assembled(lines_, c)
         segments == Segmentation(new_content)
     IN MultiLineInRange(lines_, c)
        => /\ applied'.outcome = "returned"
           /\ applied'.returns = TRUE
           /\ lines_' = SubSeq(lines_, 1, first) \o segments
                          \o SubSeq(lines_, last_line + 2, Len(lines_))
           /\ Len(lines_') =
                Len(lines_) + Len(segments) - (last_line - first + 1)
           /\ document_length_' =
                document_length_ + Len(new_content)
                  - SumLengths(lines_, first, last_line + 1)]_vars

\* C25: while the server runs, the edit_count_ of an open document grows
\* with a didChange by the number of changes the notification carries (one
\* per ApplyChange() call that ApplyChanges() is to make, whatever each call
\* returns) and by nothing else; it starts at 0 and never goes down.
C25_EditCountCountsChanges ==
  [][collection_state' = "ok" =>
       \A uri \in DOMAIN buffers_' :
         LET before == IF uri \in DOMAIN buffers_
                         THEN buffers_[uri].edit_count_ ELSE 0
             changes == IF notified'.kind = "didChange" /\ notified'.uri = uri
                          THEN notified'.changes ELSE 0
         IN buffers_'[uri].edit_count_ = before + changes]_vars

\* The URIs with a didOpen and no didClose since.
OpenUris == {uri \in Uris : uri_history[uri] \in {"open", "reopened"}}

\* C26: while the server runs, buffers_ holds a document for exactly the
\* URIs with a didOpen and no later didClose, whatever notifications came;
\* a didOpen for a URI that is not open (never opened, or closed since)
\* gives a fresh buffer: its content is the text of that didOpen, its
\* edit_count_ is 0.
C26_OpenDocuments ==
  [][collection_state' = "ok" =>
       /\ DOMAIN buffers_' = OpenUris'
       /\ (notified'.kind = "didOpen" /\ notified'.uri \notin OpenUris) =>
            /\ FlatView(buffers_'[notified'.uri].lines_) = notified'.text
            /\ buffers_'[notified'.uri].document_length_
                 = Len(notified'.text)
            /\ buffers_'[notified'.uri].edit_count_ = 0]_vars

C26_Witness ==
  /\ collection_state = "ok"
  /\ notified.kind = "didOpen"
  /\ uri_history[notified.uri] = "reopened"
  /\ FlatView(buffers_[notified.uri].lines_) = notified.text
  /\ buffers_[notified.uri].edit_count_ = 0
  /\ \E uri \in Uris : uri_history[uri] = "closed"

\* C27: a didOpen for a URI that is open changes nothing in buffers_: the
\* buffer of the URI keeps its lines, document_length_ and edit_count_, and
\* the text of the notification goes nowhere.
C27_SecondOpenIsNoOp ==
  [][(notified'.kind = "didOpen" /\ notified'.uri \in DOMAIN buffers_) =>
       buffers_' = buffers_]_vars

C27_Witness ==
  /\ notified.kind = "didOpen"
  /\ notified.uri \in DOMAIN buffers_
  /\ buffers_[notified.uri].edit_count_ > 0
  /\ FlatView(buffers_[notified.uri].lines_) # notified.text
  /\ notified.text # <<>>

\* C28: while the buffer works, at construction and after every change,
\* the number of lines is the number of segments of the content: 0 for the
\* empty content, else one per newline and one more for a rest without
\* newline.
C28_LineCountMatchesContent ==
  buffer_state = "ok" => Len(lines_) = Len(Segmentation(DocumentContent))

\* C29: while the buffer works, every line but the last ends in a newline
\* and no line has a newline before its last byte, after every change.
C29_LinesEndInNewline ==
  buffer_state = "ok" =>
    \A i \in 1..Len(lines_) :
      /\ i < Len(lines_) =>
           lines_[i] # <<>> /\ lines_[i][Len(lines_[i])] = LF
      /\ \A k \in 1..(Len(lines_[i]) - 1) : lines_[i][k] # LF

\* C30: a ranged change with start.line or end.line more than one past the
\* last line returns false and leaves the lines (content and line count)
\* and document_length_ as they were; edit_count_ advances by one.
C30_OutOfRangeEditFails ==
  [][LET c == applied'.change
     IN (/\ c.has_range
         /\ WellFormed(c.range)
         /\ \/ c.range.start.line > Len(lines_)
            \/ c.range.end.line > Len(lines_))
        => /\ applied'.outcome = "returned"
           /\ applied'.returns = FALSE
           /\ lines_' = lines_
           /\ document_length_' = document_length_
           /\ edit_count_' = edit_count_ + 1]_vars

(***************************************************************************)
(* The splitter on frames outside the wire format.                         *)
(***************************************************************************)
\* The Content-Length value the header block of an emitted pair declares.
Declared(header) == ParseHeaderGetBodyOffset(header).body_size

\* The pair lies in the bytes the read function has given out so far.
WithinRead(e) ==
  LET size == Len(e.header) + Len(e.body)
  IN \E p \in 0..(read_pos - size) :
       View(Content, p, size) = e.header \o e.body

\* C36: every (header, body) pair handed to the message processor has a
\* body as long as the header's Content-Length declares, that length is not
\* negative, and header and body lie within the bytes read so far; so a
\* header with a negative Content-Length is never emitted.
C36_BodyLengthAsDeclared ==
  \A i \in 1..Len(emitted) :
    /\ Declared(emitted[i].header) >= 0
    /\ Len(emitted[i].body) = Declared(emitted[i].header)
    /\ WithinRead(emitted[i])

\* C37: a pull never starts with a leftover that fills the read buffer, so
\* the read function is always offered at least one byte of space.
C37_LeftoverLeavesSpace ==
  (message_processor_ /\ SessionOpen) => BufSize - pending_size >= 1

(***************************************************************************)
(* What DispatchMessage() hands back to its caller.                        *)
(***************************************************************************)
\* C38: DispatchMessage() returns normally for every body: nothing escapes
\* to its caller, whether the body cannot be parsed, is no object, has a
\* method that is no string, has no params, or names a handler that raises.
C38_DispatchReturns == last.outcome \in {"none", "returned"}

(***************************************************************************)
(* A ranged change as a replacement in the flat content.                   *)
(***************************************************************************)
\* A position of the document: on one of the lines the content has between
\* its newlines (the empty content has one empty line, a content that ends
\* in a newline has an empty last line), not behind the line's characters.
ValidPosition(content, p) ==
  /\ p.line < Len(StrSplit(content))
  /\ p.character <= Len(StrSplit(content)[p.line + 1])
\* The offset of a valid position in the flat content.
FlatOffset(content, p) ==
  SumLengths(StrSplit(content), 0, p.line) + p.line + p.character

\* C39: an ApplyChange() with a range whose start and end are positions of
\* the document, start <= end, leaves as content the content before with
\* the bytes from the flat offset of start to the flat offset of end
\* replaced by the text of the change, on the single-line path and on the
\* multi-line path alike.
C39_FlatReplacement ==
  [][LET c == applied'.change
         before == FlatView(lines_)
     IN (/\ edit_count_' = edit_count_ + 1
         /\ c.has_range
         /\ WellFormed(c.range)
         /\ ValidPosition(before, c.range.start)
         /\ ValidPosition(before, c.range.end))
        => /\ applied'.outcome = "returned"
           /\ FlatView(lines_') =
                Replaced(before, FlatOffset(before, c.range.start),
                         FlatOffset(before, c.range.end), c.text)]_vars

(***************************************************************************)
(* What a notification changes in the collection.                          *)
(***************************************************************************)
\* Every change of the batch applied in order, each to what the one before
\* it left, however that one ended.
RECURSIVE EachApplied(_, _, _)
EachApplied(buffer, cc, ub) ==
  IF cc = <<>> THEN buffer
  ELSE EachApplied(ApplyChange(buffer, Head(cc), ub).buffer, Tail(cc), ub)

\* C40: a didOpen, didChange or didClose for a URI leaves the documents of
\* all other URIs as they were (lines, document_length_, edit_count_); a
\* didChange or didClose for a URI that is not open changes nothing; and a
\* didChange for an open document applies all its changes in order, also
\* behind one that failed.
C40_NotificationFrame ==
  [][/\ \A k \in (DOMAIN buffers_ \cup DOMAIN buffers_') \ {notified'.uri} :
          /\ k \in DOMAIN buffers_ \cap DOMAIN buffers_'
          /\ buffers_'[k] = buffers_[k]
     /\ (/\ notified'.kind \in {"didChange", "didClose"}
         /\ notified'.uri \notin DOMAIN buffers_) => buffers_' = buffers_
     /\ (/\ notified'.kind = "didChange"
         /\ notified'.uri \in DOMAIN buffers_) =>
          \E cc \in ContentChanges, ub \in TextUndefinedOutcomes :
            /\ Len(cc) = notified'.changes
            /\ buffers_'[notified'.uri]
                 = EachApplied(buffers_[notified'.uri], cc, ub)]_vars

(***************************************************************************)
(* The end of the session in the loop of main.cc.                          *)
(***************************************************************************)
\* The step is a cycle in which the reader callback was called.
ReaderStep == loop = "running" /\ (cycle'.kind = "ready" \/ reader' = "escaped")
\* The step has dispatched a shutdown request or an exit notification.
EndDispatched ==
  \E i \in (Len(trace) + 1)..Len(trace') :
    /\ trace'[i].what = "dispatch"
    /\ trace'[i].text \in {<<"S">>, <<"E">>}

\* C35: when a pull has dispatched a shutdown request or an exit
\* notification, or returns a status that is not ok, the reader callback
\* returns false at the end of that pull and stdin is deregistered; the
\* next cycle then finds no descriptor and Loop() returns without waiting
\* in select() and without calling the idle callback.
C35_SessionEndStopsLoop ==
  [][/\ (/\ ReaderStep
         /\ EndDispatched \/ (reader' # "escaped" /\ status' # "Ok"))
        => /\ reader' = "false"
           /\ DOMAIN read_handlers_' = {}
           /\ loop' = "running"
     /\ (loop = "running" /\ DOMAIN read_handlers_ = {})
        => /\ loop' = "returned"
           /\ cycle'.kind = "no_fds"
           /\ cycle'.called = <<>>]_vars
====
